---------------------------- MODULE Spec2Model ----------------------------
(***************************************************************************)
(* A model of the Markdown translator: the Gemini gateway with its retry   *)
(* loop (src/src/api_client.py), the translation service                   *)
(* (src/src/translation_service.py) and the batch orchestrator             *)
(* (src/src/orchestrator.py, src/src/file_service.py).                     *)
(*                                                                         *)
(* Text is a sequence of one-character strings.  Durations are counted in  *)
(* whole seconds.                                                          *)
(***************************************************************************)
EXTENDS Integers, Sequences, FiniteSets, TLC

(***************************************************************************)
(* Bounds of the model.                                                    *)
(***************************************************************************)
MaxRetriesBound == 4
MaxTranslateCalls == 2
MaxRetriesClassify == 2
MaxFiles == 3
MaxShieldLines == 4
MaxServiceLines == 3
MaxNameFiles == 2
MaxEnvLines == 2

(***************************************************************************)
(* The configuration main() builds (src/src/config.py).                    *)
(***************************************************************************)
DefaultMaxRetries == 3
DefaultRetryDelay == 1
DefaultRateLimitWait == 60

(***************************************************************************)
(* Characters and strings.                                                 *)
(***************************************************************************)
UpperCase == <<"A","B","C","D","E","F","G","H","I","J","K","L","M","N","O","P","Q","R","S","T","U","V","W","X","Y","Z">>
LowerCase == <<"a","b","c","d","e","f","g","h","i","j","k","l","m","n","o","p","q","r","s","t","u","v","w","x","y","z">>

\* the characters str.strip() removes, among those the model uses
Whitespace == {" ", "\t", "\n"}

SetMin(S) == CHOOSE x \in S : \A y \in S : x <= y
SetMax(S) == CHOOSE x \in S : \A y \in S : x >= y

\* str.strip()
Strip(s) ==
    LET keep == {i \in 1..Len(s) : s[i] \notin Whitespace}
    IN  IF keep = {} THEN <<>> ELSE SubSeq(s, SetMin(keep), SetMax(keep))

\* a variant that tests for the empty string only
IsBlankEmptyOnly(s) == s = <<>>

\* "not text or not text.strip()"
IsBlank(s) == s = <<>> \/ Strip(s) = <<>>

LowerChar(c) ==
    IF \E i \in 1..Len(UpperCase) : UpperCase[i] = c
    THEN LowerCase[CHOOSE i \in 1..Len(UpperCase) : UpperCase[i] = c]
    ELSE c

\* str.lower()
Lower(s) == [i \in 1..Len(s) |-> LowerChar(s[i])]

\* "sub in s"
Contains(s, sub) ==
    \E i \in 0..(Len(s) - Len(sub)) : SubSeq(s, i + 1, i + Len(sub)) = sub

\* the characters of the model in code point order, the order of Python's
\* string comparison
CodeOrder == <<"\t","\n"," ","#","*","-",".","/","0","1","2","3","4","5","6","7","8","9",":","A","B","C","D","E","F","G","H","I","J","K","L","M","N","O","P","Q","R","S","T","U","V","W","X","Y","Z","[","\\","]","^","_","a","b","c","d","e","f","g","h","i","j","k","l","m","n","o","p","q","r","s","t","u","v","w","x","y","z">>

Ord(c) == CHOOSE i \in 1..Len(CodeOrder) : CodeOrder[i] = c

\* s < t for two Python strings
RECURSIVE StrLess(_, _)
StrLess(s, t) ==
    IF t = <<>> THEN FALSE
    ELSE IF s = <<>> THEN TRUE
    ELSE IF s[1] = t[1] THEN StrLess(Tail(s), Tail(t))
    ELSE Ord(s[1]) < Ord(t[1])

\* s.startswith(prefix)
StartsWith(s, prefix) ==
    Len(s) >= Len(prefix) /\ SubSeq(s, 1, Len(prefix)) = prefix

\* a variant that replaces the first occurrence only
ReplaceFirst(s, old, new) ==
    LET at == {i \in 1..(Len(s) - Len(old) + 1) : SubSeq(s, i, i + Len(old) - 1) = old}
    IN  IF at = {} THEN s
        ELSE SubSeq(s, 1, SetMin(at) - 1) \o new
                 \o SubSeq(s, SetMin(at) + Len(old), Len(s))

\* s.replace(old, new), for a non-empty old
RECURSIVE Replace(_, _, _)
Replace(s, old, new) ==
    IF Len(s) < Len(old) THEN s
    ELSE IF SubSeq(s, 1, Len(old)) = old
    THEN new \o Replace(SubSeq(s, Len(old) + 1, Len(s)), old, new)
    ELSE <<s[1]>> \o Replace(Tail(s), old, new)

\* s.split('\n')
RECURSIVE SplitLines(_)
SplitLines(s) ==
    LET breaks == {i \in 1..Len(s) : s[i] = "\n"}
    IN  IF breaks = {} THEN <<s>>
        ELSE LET i == SetMin(breaks)
             IN  <<SubSeq(s, 1, i - 1)>> \o SplitLines(SubSeq(s, i + 1, Len(s)))

\* '\n'.join(lines)
RECURSIVE JoinLines(_)
JoinLines(lines) ==
    IF lines = <<>> THEN <<>>
    ELSE IF Len(lines) = 1 THEN lines[1]
    ELSE lines[1] \o <<"\n">> \o JoinLines(Tail(lines))

Digits == <<"0","1","2","3","4","5","6","7","8","9">>

\* str(n) for a natural number n
RECURSIVE Decimal(_)
Decimal(n) ==
    IF n < 10 THEN <<Digits[n + 1]>>
    ELSE Decimal(n \div 10) \o <<Digits[(n % 10) + 1]>>

(***************************************************************************)
(* Exceptions: a class and a message.  The class hierarchy is that of      *)
(* src/src/exceptions.py, below Python's Exception.                        *)
(***************************************************************************)
NoException == [cls |-> "None", msg |-> <<>>]

Raised(cls, msg) == [cls |-> cls, msg |-> msg]

\* isinstance(e, APIError): APIError and its subclass RateLimitError
IsAPIError(e) == e.cls \in {"APIError", "RateLimitError"}

\* isinstance(e, RateLimitError)
IsRateLimitError(e) == e.cls = "RateLimitError"

MsgEmptyResponse == <<"A","P","I"," ","r","e","t","u","r","n","e","d"," ","e","m","p","t","y"," ","r","e","s","p","o","n","s","e">>
MsgRateLimitPrefix == <<"A","P","I"," ","r","a","t","e"," ","l","i","m","i","t"," ","r","e","a","c","h","e","d",":"," ">>
MsgCallFailedPrefix == <<"A","P","I"," ","c","a","l","l"," ","f","a","i","l","e","d",":"," ">>
MsgAfterAllRetries == <<"T","r","a","n","s","l","a","t","i","o","n"," ","f","a","i","l","e","d"," ","a","f","t","e","r"," ","a","l","l"," ","r","e","t","r","i","e","s">>

(***************************************************************************)
(* What one call of client.models.generate_content can do: return no       *)
(* response object, a response without text, a response with a text, or    *)
(* raise an exception of the client library with some message.             *)
(***************************************************************************)
RespNone == [kind |-> "no_response", text |-> <<>>, msg |-> <<>>]
RespNoText == [kind |-> "no_text", text |-> <<>>, msg |-> <<>>]
RespText(t) == [kind |-> "text", text |-> t, msg |-> <<>>]
CallRaises(m) == [kind |-> "raise", text |-> <<>>, msg |-> m]

ResponseTexts ==
    { <<>>,
      <<" ","T","x","\n">>,
      <<" ","\n">> }

FailureMessages ==
    { <<"Q","u","o","t","a"," ","e","x","c","e","e","d","e","d">>,
      <<"R","A","T","E"," ","L","I","M","I","T">>,
      <<"H","T","T","P"," ","4","2","9">>,
      <<"R","e","s","o","u","r","c","e"," ","e","x","h","a","u","s","t","e","d">>,
      <<"R","E","S","O","U","R","C","E","_","E","X","H","A","U","S","T","E","D">>,
      <<"r","a","t","e","-","l","i","m","i","t">>,
      <<"T","e","m","p","o","r","a","r","y"," ","e","r","r","o","r">>,
      <<"T","i","m","e","o","u","t"," ","4","2","8">> }

\* the messages the retry properties are explored with
RetryMessages ==
    { <<"H","T","T","P"," ","4","2","9">>,
      <<"R","E","S","O","U","R","C","E","_","E","X","H","A","U","S","T","E","D">>,
      <<"T","e","m","p","o","r","a","r","y"," ","e","r","r","o","r">>,
      <<"T","i","m","e","o","u","t"," ","4","2","8">> }

OutcomesWith(messages) ==
    {RespNone, RespNoText}
        \cup {RespText(t) : t \in ResponseTexts}
        \cup {CallRaises(m) : m \in messages}

Outcomes == OutcomesWith(RetryMessages)
AllOutcomes == OutcomesWith(FailureMessages)

\* texts handed to translate_text by a caller of the gateway
GatewayTexts ==
    { <<>>, <<"\t","\n"," ">>, <<" ","H","i"," ">> }

(***************************************************************************)
(* State.                                                                  *)
(***************************************************************************)
VARIABLES
    max_retries,      \* GeminiAPIClient.max_retries
    retry_delay,      \* GeminiAPIClient.retry_delay
    rate_limit_wait,  \* GeminiAPIClient.rate_limit_wait
    gw_pc,            \* translate_text: "idle", "attempt", "returned", "raised"
    gw_text,          \* translate_text's argument text
    attempt,          \* the loop variable of translate_text
    last_exception,   \* the local last_exception of translate_text
    gw_result,        \* the text translate_text returned
    gw_error,         \* the exception translate_text raised
    trace,            \* this translate_text call's underlying calls and sleeps
    outcomes,         \* what the underlying calls of this translate_text call did
    n_translate,      \* translate_text calls started so far
    prev_exhausted,   \* the translate_text call before this one used all its attempts
    fs,               \* the Markdown files below source_dir: path -> content
    orch_pc,          \* translate_directory: where it stands
    listing,          \* what directory.rglob("*.md") yielded
    markdown_files,   \* translate_directory's markdown_files
    file_idx,         \* the position of source_file in markdown_files
    results,          \* translate_directory's results
    content,          \* _translate_single_file's content
    footnotes,        \* translate_markdown's footnotes
    translated_content, \* _translate_single_file's translated_content
    log,              \* the steps of the run, with how each ended
    svc_pc,           \* a direct use of the footnote shield: where it stands
    processed_content, \* translate_markdown's processed_content
    final_content,    \* postprocess_markdown's result
    main_pc,          \* main: where it stands
    exit_code,        \* what main returned
    report,           \* what main printed last about the run
    env_file,         \* the .env file: whether it exists, and its text
    api_key           \* what load_api_key_from_env returned or raised

gwVars == <<gw_pc, gw_text, attempt, last_exception, gw_result, gw_error,
            trace, outcomes>>
cfgVars == <<max_retries, retry_delay, rate_limit_wait>>
drvVars == <<n_translate, prev_exhausted>>
orchVars == <<fs, orch_pc, listing, markdown_files, file_idx, results, content,
              footnotes, translated_content, log>>
svcVars == <<svc_pc, final_content>>
mainVars == <<main_pc, exit_code, report, env_file, api_key>>
vars == <<cfgVars, gwVars, drvVars, orchVars, processed_content, svcVars, mainVars>>

CallEvent == [ev |-> "call", secs |-> 0]
SleepEvent(s) == [ev |-> "sleep", secs |-> s]

\* the underlying calls this translate_text call has made
NumCalls == Cardinality({i \in 1..Len(trace) : trace[i].ev = "call"})
\* the sleeps this translate_text call has made
NumSleeps == Cardinality({i \in 1..Len(trace) : trace[i].ev = "sleep"})

(***************************************************************************)
(* GeminiAPIClient.translate_text                                          *)
(***************************************************************************)
Pow2(n) == IF n <= 0 THEN 1 ELSE 2 ^ n

\* a variant that does not test for "429"
MatchesQuotaWithout429(m) ==
    \/ Contains(m, <<"q","u","o","t","a">>)
    \/ Contains(m, <<"r","a","t","e"," ","l","i","m","i","t">>)

\* "quota" in m or "rate limit" in m or "429" in m
MatchesQuota(m) ==
    \/ Contains(m, <<"q","u","o","t","a">>)
    \/ Contains(m, <<"r","a","t","e"," ","l","i","m","i","t">>)
    \/ Contains(m, <<"4","2","9">>)

\* "resource exhausted" in m or "resource_exhausted" in m
MatchesResourceExhausted(m) ==
    \/ Contains(m, <<"r","e","s","o","u","r","c","e"," ","e","x","h","a","u","s","t","e","d">>)
    \/ Contains(m, <<"r","e","s","o","u","r","c","e","_","e","x","h","a","u","s","t","e","d">>)

\* the exception an attempt ends with, as the except clauses see it: the
\* exception the call raised, or the APIError raised for an empty response
AttemptException(o) ==
    IF o.kind = "raise" THEN Raised("Exception", o.msg)
    ELSE Raised("APIError", MsgEmptyResponse)

\* a variant whose generic API error does not carry the cause
HandledWithoutCause(e) ==
    IF IsRateLimitError(e) THEN e
    ELSE IF IsAPIError(e) THEN e
    ELSE IF MatchesQuota(Lower(e.msg)) THEN Raised("RateLimitError", MsgRateLimitPrefix \o e.msg)
    ELSE IF MatchesResourceExhausted(Lower(e.msg)) THEN Raised("RateLimitError", MsgRateLimitPrefix \o e.msg)
    ELSE Raised("APIError", MsgCallFailedPrefix)

\* a variant that keeps the exception of the first failed attempt
HandledKeepFirst(e) ==
    IF last_exception # NoException THEN last_exception
    ELSE IF IsRateLimitError(e) THEN e
    ELSE IF IsAPIError(e) THEN e
    ELSE IF MatchesQuota(Lower(e.msg)) THEN Raised("RateLimitError", MsgRateLimitPrefix \o e.msg)
    ELSE IF MatchesResourceExhausted(Lower(e.msg)) THEN Raised("RateLimitError", MsgRateLimitPrefix \o e.msg)
    ELSE Raised("APIError", MsgCallFailedPrefix \o e.msg)

\* the except clauses: the exception kept in last_exception
Handled(e) ==
    IF IsRateLimitError(e) THEN e
    ELSE IF IsAPIError(e) THEN e
    ELSE IF MatchesQuota(Lower(e.msg)) THEN Raised("RateLimitError", MsgRateLimitPrefix \o e.msg)
    ELSE IF MatchesResourceExhausted(Lower(e.msg)) THEN Raised("RateLimitError", MsgRateLimitPrefix \o e.msg)
    ELSE Raised("APIError", MsgCallFailedPrefix \o e.msg)

\* a variant that multiplies where the code raises to a power
BackoffWaitLinear(a) == retry_delay * (2 * a)

\* self.retry_delay * (2 ** attempt)
BackoffWait(a) == retry_delay * Pow2(a)

\* a variant that backs off exponentially after a rate-limit failure too
WaitTimeAlwaysBackoff(e, a) == BackoffWait(a)

\* the seconds slept before the next attempt, by the kind of the failure
WaitTime(e, a) ==
    IF IsRateLimitError(Handled(e)) THEN rate_limit_wait ELSE BackoffWait(a)

\* a variant that gives up one attempt early
MayRetryOneLess(a) == a < max_retries - 2

\* a variant that also waits after the last attempt
MayRetryAlways(a) == a < max_retries

\* "attempt < self.max_retries - 1"
MayRetry(a) == a < max_retries - 1

\* a variant whose loop variable begins one before 0
FirstAttemptEarly(stale) == 0 - 1

\* a variant that goes on counting where the earlier call stopped
FirstAttemptStale(stale) == stale

\* "for attempt in range(self.max_retries)": the first value of the loop
\* variable, whatever an earlier call left in it
FirstAttempt(stale) == 0

\* a variant that tests the response object only
IsEmptyResponseObjectOnly(o) == o.kind = "no_response"

\* the truth test "not response or not response.text"
IsEmptyResponse(o) == o.kind \in {"no_response", "no_text"} \/ o.text = <<>>

\* "return response.text.strip()"
ReturnedText(t) == Strip(t)

\* entering translate_text(text): the blank-text return, or the retry loop
TranslateTextEnter(text) ==
    /\ n_translate' = n_translate + 1
    /\ gw_text' = text
    /\ trace' = <<>>
    /\ outcomes' = <<>>
    /\ last_exception' = NoException
    /\ attempt' = FirstAttempt(attempt)
    /\ IF IsBlank(text)
       THEN /\ gw_pc' = "returned"
            /\ gw_result' = text
            /\ gw_error' = NoException
       ELSE IF FirstAttempt(attempt) >= max_retries
       THEN /\ gw_pc' = "raised"
            /\ gw_result' = <<>>
            /\ gw_error' = Raised("APIError", MsgAfterAllRetries)
       ELSE /\ gw_pc' = "attempt"
            /\ gw_result' = <<>>
            /\ gw_error' = NoException

\* one iteration of the retry loop: the underlying call does o
Attempt(o) ==
    /\ gw_pc = "attempt"
    /\ outcomes' = Append(outcomes, o)
    /\ UNCHANGED <<gw_text, cfgVars, drvVars, orchVars, processed_content, svcVars, mainVars>>
    /\ IF o.kind \in {"text", "no_response", "no_text"} /\ ~IsEmptyResponse(o)
       THEN /\ gw_pc' = "returned"
            /\ gw_result' = ReturnedText(o.text)
            /\ trace' = Append(trace, CallEvent)
            /\ UNCHANGED <<attempt, last_exception, gw_error>>
       ELSE LET e == AttemptException(o)
                h == Handled(e)
            IN  /\ last_exception' = h
                /\ UNCHANGED gw_result
                /\ IF MayRetry(attempt)
                   THEN /\ trace' = trace \o <<CallEvent, SleepEvent(WaitTime(e, attempt))>>
                        /\ IF attempt + 1 < max_retries
                           THEN /\ attempt' = attempt + 1
                                /\ gw_pc' = "attempt"
                                /\ UNCHANGED gw_error
                           ELSE /\ UNCHANGED attempt
                                /\ gw_pc' = "raised"
                                /\ gw_error' = h
                   ELSE /\ trace' = Append(trace, CallEvent)
                        /\ gw_pc' = "raised"
                        /\ gw_error' = h
                        /\ UNCHANGED attempt

(***************************************************************************)
(* A caller that uses one gateway for several translate_text calls.        *)
(***************************************************************************)
CallTranslateText(text) ==
    /\ gw_pc \in {"idle", "returned", "raised"}
    /\ n_translate < MaxTranslateCalls
    /\ prev_exhausted' = (NumCalls = max_retries)
    /\ TranslateTextEnter(text)
    /\ UNCHANGED <<cfgVars, orchVars, processed_content, svcVars, mainVars>>

(***************************************************************************)
(* TranslationService: the footnote shield around the gateway.             *)
(***************************************************************************)
\* re.match(r'^\[\^[^\]]+\]:\s*.+$', t), for a line t
MatchesFootnoteDef(t) ==
    /\ Len(t) >= 6
    /\ t[1] = "[" /\ t[2] = "^" /\ t[3] # "]"
    /\ LET closing == {q \in 4..Len(t) : t[q] = "]"}
       IN  /\ closing # {}
           /\ SetMin(closing) + 2 <= Len(t)
           /\ t[SetMin(closing) + 1] = ":"
           /\ \A q \in (SetMin(closing) + 2)..Len(t) : t[q] # "\n"

\* a variant whose pattern stops after "[^"
IsDefinitionLineLoose(line) == StartsWith(Strip(line), <<"[","^">>)

\* a variant that matches the line as it stands
IsDefinitionLineUntrimmed(line) == MatchesFootnoteDef(line)

\* re.match(footnote_def_pattern, line.strip())
IsDefinitionLine(line) == MatchesFootnoteDef(Strip(line))

\* next_line.startswith('    ') or next_line.startswith('\t')
IsIndented(line) ==
    StartsWith(line, <<" "," "," "," ">>) \/ StartsWith(line, <<"\t">>)

\* a variant that takes blank lines into the footnote
RECURSIVE FootnoteEndOverBlank(_, _)
FootnoteEndOverBlank(lines, i) ==
    IF i > Len(lines) THEN i
    ELSE IF IsDefinitionLine(lines[i]) THEN i
    ELSE IF IsIndented(lines[i]) THEN FootnoteEndOverBlank(lines, i + 1)
    ELSE i

\* the inner loop of preprocess_markdown: the first line from i on that is
\* not taken into the footnote
RECURSIVE FootnoteEnd(_, _)
FootnoteEnd(lines, i) ==
    IF i > Len(lines) THEN i
    ELSE IF Strip(lines[i]) = <<>> THEN i
    ELSE IF IsDefinitionLine(lines[i]) THEN i
    ELSE IF IsIndented(lines[i]) THEN FootnoteEnd(lines, i + 1)
    ELSE i

\* a variant that numbers the placeholders from 1
PlaceholderOneBased(n) ==
    <<"_","_","F","O","O","T","N","O","T","E","_">> \o Decimal(n + 1) \o <<"_","_">>

\* f"__FOOTNOTE_{n}__"
Placeholder(n) ==
    <<"_","_","F","O","O","T","N","O","T","E","_">> \o Decimal(n) \o <<"_","_">>

\* the outer loop of preprocess_markdown, from line i on
RECURSIVE PreprocessFrom(_, _, _, _)
PreprocessFrom(lines, i, processed_lines, notes) ==
    IF i > Len(lines)
    THEN [content |-> JoinLines(processed_lines), footnotes |-> notes]
    ELSE IF IsDefinitionLine(lines[i])
    THEN LET e == FootnoteEnd(lines, i + 1)
         IN  PreprocessFrom(lines, e,
                            Append(processed_lines, Placeholder(Len(notes))),
                            Append(notes, JoinLines(SubSeq(lines, i, e - 1))))
    ELSE PreprocessFrom(lines, i + 1, Append(processed_lines, lines[i]), notes)

preprocess_markdown(text) == PreprocessFrom(SplitLines(text), 1, <<>>, <<>>)

\* a variant that restores nothing
RestoreNothing(result, notes, i) == result

\* the loop of postprocess_markdown, from footnote i (1-based) on
RECURSIVE RestoreFrom(_, _, _)
RestoreFrom(result, notes, i) ==
    IF i > Len(notes) THEN result
    ELSE RestoreFrom(Replace(result, Placeholder(i - 1), notes[i]), notes, i + 1)

\* a variant that leaves the loop after its first round
postprocess_markdown_once(text, notes) ==
    IF notes = <<>> THEN text ELSE Replace(text, Placeholder(0), notes[1])

postprocess_markdown(text, notes) ==
    IF notes = <<>> THEN text ELSE RestoreFrom(text, notes, 1)

MsgTranslateFailedPrefix == <<"F","a","i","l","e","d"," ","t","o"," ","t","r","a","n","s","l","a","t","e"," ","m","a","r","k","d","o","w","n",":"," ">>

\* a variant that lets the exception through as it is
TranslationErrorUnwrapped(e) == e

\* TranslationError(f"Failed to translate markdown: {e}")
TranslationError(e) == Raised("TranslationError", MsgTranslateFailedPrefix \o e.msg)

(***************************************************************************)
(* FileSystemService and paths.  A path is the sequence of its parts below *)
(* source_dir.                                                             *)
(***************************************************************************)
MdSuffix == <<".","m","d">>
SourceDirStr == <<"/","r">>
OutputDirName == <<"j","p">>

\* Path.name and Path.parent
Name(p) == p[Len(p)]
Parent(p) == SubSeq(p, 1, Len(p) - 1)

\* a variant that keeps the suffix
StemWithSuffix(p) == p[Len(p)]

\* Path.stem: the name up to its last dot, unless that dot is the first or
\* the last character
Stem(p) ==
    LET name == Name(p)
        dots == {i \in 1..Len(name) : name[i] = "."}
    IN  IF dots # {} /\ 1 < SetMax(dots) /\ SetMax(dots) < Len(name)
        THEN SubSeq(name, 1, SetMax(dots) - 1)
        ELSE name

\* str(path)
RECURSIVE PathStrFrom(_, _)
PathStrFrom(str, parts) ==
    IF parts = <<>> THEN str
    ELSE PathStrFrom(str \o <<"/">> \o parts[1], Tail(parts))
PathStr(p) == PathStrFrom(SourceDirStr, p)

\* p < q for two paths: their parts compared as tuples of strings
RECURSIVE PathLess(_, _)
PathLess(p, q) ==
    IF q = <<>> THEN FALSE
    ELSE IF p = <<>> THEN TRUE
    ELSE IF p[1] = q[1] THEN PathLess(Tail(p), Tail(q))
    ELSE StrLess(p[1], q[1])

RECURSIVE Insert(_, _)
Insert(sorted, p) ==
    IF sorted = <<>> THEN <<p>>
    ELSE IF PathLess(p, sorted[1]) THEN <<p>> \o sorted
    ELSE <<sorted[1]>> \o Insert(Tail(sorted), p)

\* a variant that returns the files as rglob yielded them
Unsorted(files) == files

\* sorted(markdown_files)
RECURSIVE Sorted(_)
Sorted(files) ==
    IF files = <<>> THEN <<>>
    ELSE Insert(Sorted(SubSeq(files, 1, Len(files) - 1)), files[Len(files)])

\* the orders in which rglob may yield the files S
Listings(S) ==
    {l \in [1..Cardinality(S) -> S] : \A i, j \in 1..Cardinality(S) : l[i] = l[j] => i = j}

\* the parts of the string s as pathlib reads it: split at "/", without the
\* empty parts and the parts "."
RECURSIVE PathParts(_)
PathParts(s) ==
    LET slashes == {i \in 1..Len(s) : s[i] = "/"}
        first == IF slashes = {} THEN s ELSE SubSeq(s, 1, SetMin(slashes) - 1)
        rest == IF slashes = {} THEN <<>> ELSE PathParts(SubSeq(s, SetMin(slashes) + 1, Len(s)))
    IN  IF first = <<>> \/ first = <<".">> THEN rest ELSE <<first>> \o rest

\* the root of the file system, as the first part of a path that is not
\* below source_dir
RootPart == <<"/">>

\* "parent / s": s read as a path and appended to parent; an s that starts
\* with "/" is a path of its own, from the root
PathJoin(parent, s) ==
    IF s # <<>> /\ s[1] = "/" THEN <<RootPart>> \o PathParts(s)
    ELSE parent \o PathParts(s)

\* create_output_path(source_file, source_dir, output_dir_name)
create_output_path(source_file) == <<OutputDirName>> \o source_file

MsgReadFailedPrefix == <<"F","a","i","l","e","d"," ","t","o"," ","r","e","a","d"," ","f","i","l","e"," ">>
MsgWriteFailedPrefix == <<"F","a","i","l","e","d"," ","t","o"," ","w","r","i","t","e"," ","f","i","l","e"," ">>
MsgPermissionDenied == <<"P","e","r","m","i","s","s","i","o","n"," ","d","e","n","i","e","d">>

\* IOError(f"Failed to read file {file_path}: {e}")
ReadError(p) ==
    Raised("IOError", MsgReadFailedPrefix \o PathStr(p) \o <<":"," ">> \o MsgPermissionDenied)
\* IOError(f"Failed to write file {file_path}: {e}")
WriteError(p) ==
    Raised("IOError", MsgWriteFailedPrefix \o PathStr(p) \o <<":"," ">> \o MsgPermissionDenied)

(***************************************************************************)
(* TranslationOrchestrator                                                 *)
(***************************************************************************)
NoMessage == [some |-> FALSE, text |-> <<>>]

\* TranslationResult(source_file=..., success=True)
Succeeded(source_file) ==
    [source_file |-> source_file, success |-> TRUE, error_message |-> NoMessage]
\* TranslationResult(source_file=..., success=False, error_message=str(e))
Failed(source_file, e) ==
    [source_file |-> source_file, success |-> FALSE,
     error_message |-> [some |-> TRUE, text |-> e.msg]]

\* a step of the current file that ended well, and one that raised e
Done(step, path) ==
    [doc |-> file_idx, step |-> step, ok |-> TRUE, path |-> path,
     cls |-> NoException.cls, text |-> <<>>]
\* a step that ended well with the text a translate_text call returned
Returned(step, path, text) == [Done(step, path) EXCEPT !.text = text]
Raise(step, path, e) ==
    [doc |-> file_idx, step |-> step, ok |-> FALSE, path |-> path,
     cls |-> e.cls, text |-> e.msg]

\* the frame of a finished translate_text call is gone
GatewayReturn ==
    /\ gw_pc' = "idle"
    /\ gw_text' = <<>>
    /\ attempt' = 0
    /\ last_exception' = NoException
    /\ gw_result' = <<>>
    /\ gw_error' = NoException
    /\ trace' = <<>>
    /\ outcomes' = <<>>

source_file == markdown_files[file_idx]

\* a variant that gives up the batch at the first failed file
LoopNextStopOnFailure(result) ==
    IF result.success /\ file_idx < Len(markdown_files) THEN "read" ELSE "done"

\* "for source_file in markdown_files": where the loop goes once the result
\* of the current file is appended
LoopNext(result) ==
    IF file_idx < Len(markdown_files) THEN "read" ELSE "done"

\* a variant that goes on with the steps of the same file after its result
\* is appended
FinishFileGoOn(result) ==
    /\ results' = Append(results, result)
    /\ orch_pc' = "stem"
    /\ file_idx' = file_idx

\* a variant that also marks the earlier outcomes as the new one is marked
FinishFileRewrite(result) ==
    /\ results' = Append([k \in DOMAIN results |->
                              [results[k] EXCEPT !.success = result.success]], result)
    /\ orch_pc' = (IF file_idx < Len(markdown_files) THEN "read" ELSE "done")
    /\ file_idx' = IF file_idx < Len(markdown_files) THEN file_idx + 1 ELSE file_idx

\* "result = self._translate_single_file(...); results.append(result)"
FinishFile(result) ==
    /\ results' = Append(results, result)
    /\ orch_pc' = LoopNext(result)
    /\ file_idx' = IF LoopNext(result) = "read" THEN file_idx + 1 ELSE file_idx

\* translate_directory up to its loop: the enumeration, which may fail
FindMarkdownFiles(ok) ==
    /\ orch_pc = "start"
    /\ results' = <<>>
    /\ UNCHANGED <<fs, content, footnotes, translated_content, log, gwVars, cfgVars, drvVars,
                   processed_content, svcVars, mainVars>>
    /\ IF ~ok
       THEN /\ orch_pc' = "done"
            /\ UNCHANGED <<listing, markdown_files, file_idx>>
       ELSE \E l \in Listings(DOMAIN fs) :
            /\ listing' = l
            /\ markdown_files' = Sorted(l)
            /\ IF l = <<>>
               THEN orch_pc' = "done" /\ UNCHANGED file_idx
               ELSE orch_pc' = "read" /\ file_idx' = 1

\* "content = self.file_service.read_file(source_file)", which may fail
ReadFile(ok) ==
    /\ orch_pc = "read"
    /\ UNCHANGED <<fs, listing, markdown_files, footnotes, translated_content,
                   gwVars, cfgVars, drvVars, processed_content, svcVars, mainVars>>
    /\ IF ok
       THEN /\ content' = fs[source_file]
            /\ orch_pc' = "translate"
            /\ log' = Append(log, Done("read", source_file))
            /\ UNCHANGED <<results, file_idx>>
       ELSE /\ log' = Append(log, Raise("read", source_file, ReadError(source_file)))
            /\ FinishFile(Failed(source_file, ReadError(source_file)))
            /\ UNCHANGED content

\* translate_markdown(content) up to its gateway call
TranslateMarkdown ==
    /\ orch_pc = "translate"
    /\ UNCHANGED <<fs, listing, markdown_files, file_idx, results, content,
                   cfgVars, prev_exhausted, svcVars, mainVars>>
    /\ IF IsBlank(content)
       THEN /\ translated_content' = content
            /\ orch_pc' = "stem"
            /\ log' = Append(log, Done("translate", source_file))
            /\ UNCHANGED <<footnotes, processed_content, gwVars, n_translate>>
       ELSE /\ processed_content' = preprocess_markdown(content).content
            /\ footnotes' = preprocess_markdown(content).footnotes
            /\ TranslateTextEnter(preprocess_markdown(content).content)
            /\ orch_pc' = "content_call"
            /\ UNCHANGED <<translated_content, log>>

\* translate_markdown from the return of its gateway call on
TranslateMarkdownDone ==
    /\ orch_pc = "content_call"
    /\ gw_pc \in {"returned", "raised"}
    /\ GatewayReturn
    /\ processed_content' = <<>>
    /\ UNCHANGED <<fs, listing, markdown_files, content, footnotes, cfgVars, drvVars, svcVars, mainVars>>
    /\ IF gw_pc = "returned"
       THEN /\ translated_content' = postprocess_markdown(gw_result, footnotes)
            /\ orch_pc' = "stem"
            /\ log' = Append(log, Returned("translate", source_file, gw_result))
            /\ UNCHANGED <<results, file_idx>>
       ELSE /\ log' = Append(log, Raise("translate", source_file, TranslationError(gw_error)))
            /\ FinishFile(Failed(source_file, TranslationError(gw_error)))
            /\ UNCHANGED translated_content

\* "translate_text(original_stem, target_language="Japanese")"
TranslateStem ==
    /\ orch_pc = "stem"
    /\ TranslateTextEnter(Stem(source_file))
    /\ orch_pc' = "stem_call"
    /\ UNCHANGED <<fs, listing, markdown_files, file_idx, results, content,
                   footnotes, translated_content, log, cfgVars, prev_exhausted,
                   processed_content, svcVars, mainVars>>

\* a variant that leaves the '/' in
CleanStemKeepSlash(stem) ==
    Replace(Replace(stem, <<"\\">>, <<"_">>), <<":">>, <<"_">>)

\* translated_stem.replace('/', '_').replace('\\', '_').replace(':', '_')
CleanStem(stem) ==
    Replace(Replace(Replace(stem, <<"/">>, <<"_">>), <<"\\">>, <<"_">>), <<":">>, <<"_">>)

\* a variant without the fallback to the original stem
translated_stem_no_fallback == CleanStem(gw_result)

\* the name of the output file: from the translated stem, or from the
\* original one when its translation failed
translated_stem ==
    IF gw_pc = "returned" THEN CleanStem(gw_result) ELSE Stem(source_file)

\* "output_path.parent / f"{translated_stem}.md""
output_path ==
    PathJoin(Parent(create_output_path(source_file)), translated_stem \o MdSuffix)

\* how the translation of the stem ended, with the text returned; its
\* exception is dropped
StemEvent ==
    [Done("stem", source_file) EXCEPT !.ok = (gw_pc = "returned"), !.text = gw_result]

\* _translate_single_file from the return of the stem's gateway call on: the
\* output path and the write, which may fail
WriteFile(ok) ==
    /\ orch_pc = "stem_call"
    /\ gw_pc \in {"returned", "raised"}
    /\ GatewayReturn
    /\ UNCHANGED <<listing, markdown_files, content, footnotes, translated_content,
                   cfgVars, drvVars, processed_content, svcVars, mainVars>>
    /\ IF ok
       THEN /\ fs' = [p \in DOMAIN fs \cup {output_path} |->
                         IF p = output_path THEN translated_content ELSE fs[p]]
            /\ log' = log \o << StemEvent, Done("write", output_path) >>
            /\ FinishFile(Succeeded(source_file))
       ELSE /\ UNCHANGED fs
            /\ log' = log \o << StemEvent, Raise("write", output_path, WriteError(output_path)) >>
            /\ FinishFile(Failed(source_file, WriteError(output_path)))

\* the gateway before its first call
GatewayIdle ==
    /\ gw_pc = "idle"
    /\ gw_text = <<>>
    /\ attempt = 0
    /\ last_exception = NoException
    /\ gw_result = <<>>
    /\ gw_error = NoException
    /\ trace = <<>>
    /\ outcomes = <<>>

\* no batch under way
OrchestratorIdle ==
    /\ orch_pc = "idle"
    /\ listing = <<>>
    /\ markdown_files = <<>>
    /\ file_idx = 0
    /\ results = <<>>
    /\ content = <<>>
    /\ footnotes = <<>>
    /\ translated_content = <<>>
    /\ log = <<>>

\* no direct use of the footnote shield under way
ShieldIdle ==
    /\ svc_pc = "idle"
    /\ processed_content = <<>>
    /\ final_content = <<>>

\* no .env file read
NoEnvFile == [exists |-> FALSE, is_file |-> FALSE, readable |-> FALSE, text |-> <<>>]
NoApiKey == [ok |-> FALSE, value |-> <<>>, error |-> NoException]

\* no run of main under way
MainIdle ==
    /\ main_pc = "idle"
    /\ exit_code = -1
    /\ report = "none"
    /\ env_file = NoEnvFile
    /\ api_key = NoApiKey

InitGateway ==
    /\ max_retries \in 1..MaxRetriesBound
    /\ retry_delay = DefaultRetryDelay
    /\ rate_limit_wait = DefaultRateLimitWait
    /\ GatewayIdle
    /\ n_translate = 0
    /\ prev_exhausted = FALSE
    /\ fs = <<>>
    /\ OrchestratorIdle
    /\ ShieldIdle
    /\ MainIdle

NextGateway ==
    \/ \E text \in GatewayTexts : CallTranslateText(text)
    \/ \E o \in Outcomes : Attempt(o)

SpecGateway == InitGateway /\ [][NextGateway]_vars

(***************************************************************************)
(* The same caller and gateway, for the classification of failures: every  *)
(* failure message, other delays, fewer attempts.                          *)
(***************************************************************************)
InitClassify ==
    /\ max_retries \in 1..MaxRetriesClassify
    /\ retry_delay \in {1, 3}
    /\ rate_limit_wait \in {7, 60}
    /\ GatewayIdle
    /\ n_translate = 0
    /\ prev_exhausted = FALSE
    /\ fs = <<>>
    /\ OrchestratorIdle
    /\ ShieldIdle
    /\ MainIdle

NextClassify ==
    \/ \E text \in GatewayTexts : CallTranslateText(text)
    \/ \E o \in AllOutcomes : Attempt(o)

SpecClassify == InitClassify /\ [][NextClassify]_vars

(***************************************************************************)
(* The footnote shield used directly: preprocess_markdown on a content,    *)
(* then postprocess_markdown on some translated text with the footnotes    *)
(* found.                                                                  *)
(***************************************************************************)
\* the lines the contents are made of: plain, blank, definitions, indented
\* continuations, lines that only look like one of these, a placeholder
ShieldLines ==
    { <<"x">>,
      <<>>,
      <<" "," "," "," "," ">>,
      <<"[","^","1","]",":"," ","n">>,
      <<"\t","[","^","2","]",":"," ","k">>,
      <<"[","^","3","]",":">>,
      <<" "," "," "," ","m">>,
      <<" "," "," ","y">>,
      <<"_","_","F","O","O","T","N","O","T","E","_","0","_","_">> }

\* the sequences of at most n elements of S
RECURSIVE SeqsUpTo(_, _)
SeqsUpTo(S, n) ==
    IF n = 0 THEN {<<>>}
    ELSE LET shorter == SeqsUpTo(S, n - 1)
         IN  shorter \cup {Append(l, x) : l \in shorter, x \in S}

ShieldContents == {JoinLines(ls) : ls \in SeqsUpTo(ShieldLines, MaxShieldLines)}

\* what a translator may hand back for processed_content: the text as it is,
\* a text without the placeholders, repeated, swapped and run-together
\* placeholders
TranslatedTexts ==
    { processed_content,
      <<"T","x">>,
      Placeholder(0) \o <<"\n">> \o Placeholder(0),
      Placeholder(1) \o <<" ">> \o Placeholder(0),
      <<"_","_","F","O","O","T","N","O","T","E","_","0">> \o Placeholder(1) }

\* "processed_content, footnotes = self.preprocess_markdown(content)"
Preprocess ==
    /\ svc_pc = "shield"
    /\ processed_content' = preprocess_markdown(content).content
    /\ footnotes' = preprocess_markdown(content).footnotes
    /\ svc_pc' = "shielded"
    /\ UNCHANGED <<cfgVars, gwVars, drvVars, fs, orch_pc, listing, markdown_files,
                   file_idx, results, content, translated_content, log, final_content,
                   mainVars>>

\* "final_content = self.postprocess_markdown(translated_content, footnotes)"
Postprocess(text) ==
    /\ svc_pc = "shielded"
    /\ translated_content' = text
    /\ final_content' = postprocess_markdown(text, footnotes)
    /\ svc_pc' = "unshielded"
    /\ UNCHANGED <<cfgVars, gwVars, drvVars, fs, orch_pc, listing, markdown_files,
                   file_idx, results, content, footnotes, log, processed_content,
                   mainVars>>

InitShield ==
    /\ max_retries = DefaultMaxRetries
    /\ retry_delay = DefaultRetryDelay
    /\ rate_limit_wait = DefaultRateLimitWait
    /\ GatewayIdle
    /\ n_translate = 0
    /\ prev_exhausted = FALSE
    /\ fs = <<>>
    /\ orch_pc = "idle"
    /\ listing = <<>>
    /\ markdown_files = <<>>
    /\ file_idx = 0
    /\ results = <<>>
    /\ content \in ShieldContents
    /\ footnotes = <<>>
    /\ translated_content = <<>>
    /\ log = <<>>
    /\ svc_pc = "shield"
    /\ processed_content = <<>>
    /\ final_content = <<>>
    /\ MainIdle

NextShield ==
    \/ Preprocess
    \/ \E text \in TranslatedTexts : Postprocess(text)

SpecShield == InitShield /\ [][NextShield]_vars

(***************************************************************************)
(* A batch: translate_directory over a tree of Markdown files, with the    *)
(* configuration of main().                                                *)
(***************************************************************************)
CandidateFiles ==
    [p \in { << <<"a",".","m","d">> >>,
             << <<"a">>, <<"b",".","m","d">> >>,
             << <<"j","p">>, <<"a",".","m","d">> >>,
             << <<"c",".","m","d">> >> } |->
        IF p = << <<"a",".","m","d">> >>
        THEN <<"#"," ","A","\n","\n","s","e","e","[","^","1","]","\n","\n","[","^","1","]",":"," ","n","\n"," "," "," "," ","m">>
        ELSE IF p = << <<"a">>, <<"b",".","m","d">> >> THEN <<"B"," ","b">>
        ELSE IF p = << <<"j","p">>, <<"a",".","m","d">> >> THEN <<" ","\n">>
        ELSE <<"C">>]

\* the trees of at most MaxFiles Markdown files
Trees ==
    {[p \in S |-> CandidateFiles[p]] :
        S \in {S \in SUBSET DOMAIN CandidateFiles : Cardinality(S) <= MaxFiles}}

\* what the underlying call does during a batch
BatchOutcomes ==
    { RespText(<<" ","T","x","\n">>),
      CallRaises(<<"T","e","m","p","o","r","a","r","y"," ","e","r","r","o","r">>),
      CallRaises(<<"H","T","T","P"," ","4","2","9">>) }

InitBatch ==
    /\ max_retries = DefaultMaxRetries
    /\ retry_delay = DefaultRetryDelay
    /\ rate_limit_wait = DefaultRateLimitWait
    /\ GatewayIdle
    /\ n_translate = 0
    /\ prev_exhausted = FALSE
    /\ fs \in Trees
    /\ orch_pc = "start"
    /\ listing = <<>>
    /\ markdown_files = <<>>
    /\ file_idx = 0
    /\ results = <<>>
    /\ content = <<>>
    /\ footnotes = <<>>
    /\ translated_content = <<>>
    /\ log = <<>>
    /\ ShieldIdle
    /\ MainIdle

NextBatch ==
    \/ \E ok \in BOOLEAN : FindMarkdownFiles(ok)
    \/ \E ok \in BOOLEAN : ReadFile(ok)
    \/ TranslateMarkdown
    \/ \E o \in BatchOutcomes : Attempt(o)
    \/ TranslateMarkdownDone
    \/ TranslateStem
    \/ \E ok \in BOOLEAN : WriteFile(ok)

Spec == InitBatch /\ [][NextBatch]_vars

(***************************************************************************)
(* A batch with a translator whose texts hold the characters that          *)
(* _translate_single_file takes out of a file name.                        *)
(***************************************************************************)
\* the trees of at most MaxNameFiles Markdown files
NameTrees ==
    {[p \in S |-> CandidateFiles[p]] :
        S \in {S \in SUBSET DOMAIN CandidateFiles : Cardinality(S) <= MaxNameFiles}}

\* what the underlying call does: a plain text, a text with separators, a
\* failure
NameOutcomes ==
    { RespText(<<" ","T","x","\n">>),
      RespText(<<"/","p","\\","q",":","r","/",".",".">>),
      CallRaises(<<"T","e","m","p","o","r","a","r","y"," ","e","r","r","o","r">>) }

InitNames ==
    /\ max_retries = DefaultMaxRetries
    /\ retry_delay = DefaultRetryDelay
    /\ rate_limit_wait = DefaultRateLimitWait
    /\ GatewayIdle
    /\ n_translate = 0
    /\ prev_exhausted = FALSE
    /\ fs \in NameTrees
    /\ orch_pc = "start"
    /\ listing = <<>>
    /\ markdown_files = <<>>
    /\ file_idx = 0
    /\ results = <<>>
    /\ content = <<>>
    /\ footnotes = <<>>
    /\ translated_content = <<>>
    /\ log = <<>>
    /\ ShieldIdle
    /\ MainIdle

NextNames ==
    \/ \E ok \in BOOLEAN : FindMarkdownFiles(ok)
    \/ \E ok \in BOOLEAN : ReadFile(ok)
    \/ TranslateMarkdown
    \/ \E o \in NameOutcomes : Attempt(o)
    \/ TranslateMarkdownDone
    \/ TranslateStem
    \/ \E ok \in BOOLEAN : WriteFile(ok)

SpecNames == InitNames /\ [][NextNames]_vars

(***************************************************************************)
(* GeminiAPIClient.load_api_key_from_env and main's use of it.             *)
(***************************************************************************)
MsgEnvNotFound == <<".","e","n","v"," ","f","i","l","e"," ","n","o","t"," ","f","o","u","n","d",":"," ",".","e","n","v">>
MsgEnvNotAFile == <<"P","a","t","h"," ","i","s"," ","n","o","t"," ","a"," ","f","i","l","e",":"," ",".","e","n","v">>
MsgEnvReadFailed == <<"F","a","i","l","e","d"," ","t","o"," ","r","e","a","d"," ",".","e","n","v"," ","f","i","l","e",":"," ">>
MsgKeyEmpty == <<"A","P","I"," ","k","e","y"," ","v","a","l","u","e"," ","i","s"," ","e","m","p","t","y"," ","i","n"," ",".","e","n","v"," ","f","i","l","e">>
MsgKeyNotFound == <<"A","P","I"," ","k","e","y"," ","n","o","t"," ","f","o","u","n","d"," ","i","n"," ",".","e","n","v"," ","f","i","l","e"," ","(","e","x","p","e","c","t","e","d"," ","f","o","r","m","a","t",":"," ","k","e","y","=","<","y","o","u","r","_","a","p","i","_","k","e","y",">",")">>
KeyPrefix == <<"k","e","y","=">>

\* the characters at which str.splitlines() breaks a line, among those the
\* model uses
LineBreaks == {"\n", "\r"}

\* content.splitlines(): "\r\n" is one break, and no empty line follows the
\* last break
RECURSIVE splitlines(_)
splitlines(s) ==
    LET breaks == {i \in 1..Len(s) : s[i] \in LineBreaks}
    IN  IF s = <<>> THEN <<>>
        ELSE IF breaks = {} THEN <<s>>
        ELSE LET i == SetMin(breaks)
                 j == IF s[i] = "\r" /\ i < Len(s) /\ s[i + 1] = "\n" THEN i + 1 ELSE i
             IN  <<SubSeq(s, 1, i - 1)>> \o splitlines(SubSeq(s, j + 1, Len(s)))

\* s.endswith(suffix)
EndsWith(s, suffix) ==
    Len(s) >= Len(suffix) /\ SubSeq(s, Len(s) - Len(suffix) + 1, Len(s)) = suffix

\* api_key[1:-1]
Inner(k) == IF Len(k) <= 2 THEN <<>> ELSE SubSeq(k, 2, Len(k) - 1)

\* "Remove quotes if present"
Unquote(k) ==
    IF StartsWith(k, <<"\"">>) /\ EndsWith(k, <<"\"">>) THEN Inner(k)
    ELSE IF StartsWith(k, <<"'">>) /\ EndsWith(k, <<"'">>) THEN Inner(k)
    ELSE k

KeyLoaded(k) == [ok |-> TRUE, value |-> k, error |-> NoException]
KeyFailed(e) == [ok |-> FALSE, value |-> <<>>, error |-> e]

\* the loop over content.splitlines(), from line i on
RECURSIVE ParseEnvFrom(_, _)
ParseEnvFrom(lines, i) ==
    IF i > Len(lines) THEN KeyFailed(Raised("ValueError", MsgKeyNotFound))
    ELSE LET line == Strip(lines[i])
         IN  IF line = <<>> \/ StartsWith(line, <<"#">>) THEN ParseEnvFrom(lines, i + 1)
             ELSE IF StartsWith(line, KeyPrefix)
             THEN LET k == Unquote(Strip(SubSeq(line, 5, Len(line))))
                  IN  IF k # <<>> THEN KeyLoaded(k)
                      ELSE KeyFailed(Raised("ValueError", MsgKeyEmpty))
             ELSE ParseEnvFrom(lines, i + 1)

load_api_key_from_env(env) ==
    IF ~env.exists THEN KeyFailed(Raised("FileNotFoundError", MsgEnvNotFound))
    ELSE IF ~env.is_file THEN KeyFailed(Raised("ValueError", MsgEnvNotAFile))
    ELSE IF ~env.readable
    THEN KeyFailed(Raised("ValueError", MsgEnvReadFailed \o MsgPermissionDenied))
    ELSE ParseEnvFrom(splitlines(env.text), 1)

\* "api_key = GeminiAPIClient.load_api_key_from_env()" in main: both kinds
\* of error end the run with 1
LoadApiKey ==
    /\ main_pc = "load_key"
    /\ api_key' = load_api_key_from_env(env_file)
    /\ IF load_api_key_from_env(env_file).ok
       THEN /\ main_pc' = "init"
            /\ UNCHANGED <<exit_code, report>>
       ELSE /\ main_pc' = "exited"
            /\ exit_code' = 1
            /\ report' = "error"
    /\ UNCHANGED <<env_file, cfgVars, gwVars, drvVars, orchVars, processed_content, svcVars>>

\* the lines the .env files are made of
EnvLines ==
    { <<>>,
      <<" ">>,
      <<"#"," ","k","e","y","=","c">>,
      <<"k","e","y","=","a">>,
      <<" ","k","e","y","="," ","b"," ">>,
      <<"k","e","y","=","\"","d","\"">>,
      <<"k","e","y","=","'","e","'">>,
      <<"k","e","y","=","\"","f","'">>,
      <<"k","e","y","=">>,
      <<"k","e","y","=","\"">>,
      <<"x","=","1","\r","k","e","y","=","r">> }

EnvTexts == {JoinLines(ls) : ls \in SeqsUpTo(EnvLines, MaxEnvLines)}

EnvFiles ==
    {NoEnvFile,
     [exists |-> TRUE, is_file |-> FALSE, readable |-> FALSE, text |-> <<>>],
     [exists |-> TRUE, is_file |-> TRUE, readable |-> FALSE, text |-> <<>>]}
        \cup {[exists |-> TRUE, is_file |-> TRUE, readable |-> TRUE, text |-> t] : t \in EnvTexts}

InitCredentials ==
    /\ max_retries = DefaultMaxRetries
    /\ retry_delay = DefaultRetryDelay
    /\ rate_limit_wait = DefaultRateLimitWait
    /\ GatewayIdle
    /\ n_translate = 0
    /\ prev_exhausted = FALSE
    /\ fs = <<>>
    /\ OrchestratorIdle
    /\ ShieldIdle
    /\ main_pc = "load_key"
    /\ exit_code = -1
    /\ report = "none"
    /\ env_file \in EnvFiles
    /\ api_key = NoApiKey

NextCredentials == LoadApiKey

SpecCredentials == InitCredentials /\ [][NextCredentials]_vars

(***************************************************************************)
(* main from its translate_directory call on, with the interruption of     *)
(* the process.                                                            *)
(***************************************************************************)
\* "failed_count = sum(1 for r in results if not r.success)"
failed_count(rs) == Cardinality({k \in 1..Len(rs) : ~rs[k].success})

\* a variant for which an empty list of results is an error
ExitCodeEmptyIsError(rs) ==
    IF rs = <<>> THEN 1
    ELSE IF failed_count(rs) > 0 THEN 1
    ELSE 0

\* a variant that reports an error only when no file succeeded
ExitCodeAllFailed(rs) ==
    IF rs = <<>> THEN 0
    ELSE IF failed_count(rs) = Len(rs) THEN 1
    ELSE 0

\* "Determine exit code based on results"
ExitCode(rs) ==
    IF rs = <<>> THEN 0
    ELSE IF failed_count(rs) > 0 THEN 1
    ELSE 0

\* main once translate_directory has returned: the summary and the exit code
MainReturn ==
    /\ main_pc = "batch"
    /\ orch_pc = "done"
    /\ main_pc' = "exited"
    /\ report' = "summary"
    /\ exit_code' = ExitCode(results)
    /\ UNCHANGED <<env_file, api_key, cfgVars, gwVars, drvVars, orchVars,
                   processed_content, svcVars>>

KeyboardInterrupt == Raised("KeyboardInterrupt", <<>>)

\* a variant for which every exception is an Exception
IsExceptionAny(e) == TRUE

\* isinstance(e, Exception), what the "except Exception" clauses catch:
\* KeyboardInterrupt is a BaseException only
IsException(e) == e.cls # "KeyboardInterrupt"

\* the steps of _translate_single_file inside its try
FileSteps == {"read", "translate", "content_call", "stem", "stem_call"}

\* how far write_text got when the process is interrupted during the write
WriteStages == {"none", "empty", "all"}

\* the process is interrupted while main is in translate_directory or
\* print_summary: KeyboardInterrupt is raised where the run stands and goes
\* up to the first except clause that catches it, which is main's.  An
\* interruption during the write leaves no file, an empty one or the whole
\* one.
Interrupt(written) ==
    /\ main_pc = "batch"
    /\ written # "none" => (orch_pc = "stem_call" /\ gw_pc \in {"returned", "raised"})
    /\ fs' = IF written = "none" THEN fs
             ELSE [p \in DOMAIN fs \cup {output_path} |->
                      IF p # output_path THEN fs[p]
                      ELSE IF written = "all" THEN translated_content ELSE <<>>]
    /\ GatewayReturn
    /\ UNCHANGED <<env_file, api_key, cfgVars, drvVars, listing, markdown_files,
                   content, footnotes, translated_content, processed_content, svcVars>>
    /\ IF IsException(KeyboardInterrupt) /\ orch_pc \in FileSteps
       THEN /\ log' = Append(log, Raise(orch_pc, source_file, KeyboardInterrupt))
            /\ FinishFile(Failed(source_file, KeyboardInterrupt))
            /\ UNCHANGED <<main_pc, exit_code, report>>
       ELSE /\ orch_pc' = "interrupted"
            /\ main_pc' = "exited"
            /\ report' = "interrupted"
            /\ exit_code' = 1
            /\ UNCHANGED <<results, file_idx, log>>

\* the .env file of a run that reaches the batch
MainEnvFile ==
    [exists |-> TRUE, is_file |-> TRUE, readable |-> TRUE, text |-> KeyPrefix \o <<"a">>]

InitMain ==
    /\ max_retries = DefaultMaxRetries
    /\ retry_delay = DefaultRetryDelay
    /\ rate_limit_wait = DefaultRateLimitWait
    /\ GatewayIdle
    /\ n_translate = 0
    /\ prev_exhausted = FALSE
    /\ fs \in NameTrees
    /\ orch_pc = "start"
    /\ listing = <<>>
    /\ markdown_files = <<>>
    /\ file_idx = 0
    /\ results = <<>>
    /\ content = <<>>
    /\ footnotes = <<>>
    /\ translated_content = <<>>
    /\ log = <<>>
    /\ ShieldIdle
    /\ main_pc = "batch"
    /\ exit_code = -1
    /\ report = "none"
    /\ env_file = MainEnvFile
    /\ api_key = load_api_key_from_env(MainEnvFile)

NextMain ==
    \/ \E ok \in BOOLEAN : FindMarkdownFiles(ok)
    \/ \E ok \in BOOLEAN : ReadFile(ok)
    \/ TranslateMarkdown
    \/ \E o \in BatchOutcomes : Attempt(o)
    \/ TranslateMarkdownDone
    \/ TranslateStem
    \/ \E ok \in BOOLEAN : WriteFile(ok)
    \/ MainReturn
    \/ \E written \in WriteStages : Interrupt(written)

SpecMain == InitMain /\ [][NextMain]_vars

(***************************************************************************)
(* A batch over a tree that holds README.md only, with a translator that   *)
(* puts "[T] " before the text it is given, or fails.                      *)
(***************************************************************************)
ReadmeFile == << <<"R","E","A","D","M","E",".","m","d">> >>

\* the lines of the content of README.md
ReadmeLines ==
    << <<"#"," ","H","e","l","l","o">>,
       <<>>,
       <<"B","o","d","y","[","^","1","]",".">>,
       <<>>,
       <<"[","^","1","]",":"," ","N","o","t","e",".">> >>

\* the content, and the contents made of its first lines
ReadmeContents == {JoinLines(SubSeq(ReadmeLines, 1, n)) : n \in 1..Len(ReadmeLines)}

TranslatorMark == <<"[","T","]"," ">>

\* what the underlying call does with the text of the prompt
ReadmeOutcomes ==
    { RespText(TranslatorMark \o gw_text),
      CallRaises(<<"T","e","m","p","o","r","a","r","y"," ","e","r","r","o","r">>),
      CallRaises(<<"H","T","T","P"," ","4","2","9">>) }

InitReadme ==
    /\ max_retries = DefaultMaxRetries
    /\ retry_delay = DefaultRetryDelay
    /\ rate_limit_wait = DefaultRateLimitWait
    /\ GatewayIdle
    /\ n_translate = 0
    /\ prev_exhausted = FALSE
    /\ fs \in {[p \in {ReadmeFile} |-> c] : c \in ReadmeContents}
    /\ orch_pc = "start"
    /\ listing = <<>>
    /\ markdown_files = <<>>
    /\ file_idx = 0
    /\ results = <<>>
    /\ content = <<>>
    /\ footnotes = <<>>
    /\ translated_content = <<>>
    /\ log = <<>>
    /\ ShieldIdle
    /\ MainIdle

NextReadme ==
    \/ \E ok \in BOOLEAN : FindMarkdownFiles(ok)
    \/ \E ok \in BOOLEAN : ReadFile(ok)
    \/ TranslateMarkdown
    \/ \E o \in ReadmeOutcomes : Attempt(o)
    \/ TranslateMarkdownDone
    \/ TranslateStem
    \/ \E ok \in BOOLEAN : WriteFile(ok)

SpecReadme == InitReadme /\ [][NextReadme]_vars

(***************************************************************************)
(* One document through the pipeline: translate_directory over a tree that *)
(* holds a single Markdown file, with a translator that hands back the     *)
(* text it was given, some other text, or fails.                           *)
(***************************************************************************)
\* the lines the contents are made of: plain, blank, definitions (one that
\* quotes a placeholder), a continuation, a placeholder
ServiceLines ==
    { <<"x">>,
      <<" ">>,
      <<"[","^","1","]",":"," ","n">>,
      <<"[","^","3","]",":"," ">> \o Placeholder(1),
      <<"\t","[","^","2","]",":"," ","k">>,
      <<" "," "," "," ","m">>,
      <<"_","_","F","O","O","T","N","O","T","E","_","0","_","_">> }

ServiceContents == {JoinLines(ls) : ls \in SeqsUpTo(ServiceLines, MaxServiceLines)}

\* the one file of the tree
ServiceFile == << <<"d",".","m","d">> >>

\* what the underlying call does with the text of the prompt
ServiceOutcomes ==
    { RespText(gw_text),
      RespText(<<" ","T","x","\n">>),
      CallRaises(<<"T","e","m","p","o","r","a","r","y"," ","e","r","r","o","r">>),
      CallRaises(<<"H","T","T","P"," ","4","2","9">>) }

InitService ==
    /\ max_retries = DefaultMaxRetries
    /\ retry_delay = DefaultRetryDelay
    /\ rate_limit_wait = DefaultRateLimitWait
    /\ GatewayIdle
    /\ n_translate = 0
    /\ prev_exhausted = FALSE
    /\ fs \in {[p \in {ServiceFile} |-> c] : c \in ServiceContents}
    /\ orch_pc = "start"
    /\ listing = <<>>
    /\ markdown_files = <<>>
    /\ file_idx = 0
    /\ results = <<>>
    /\ content = <<>>
    /\ footnotes = <<>>
    /\ translated_content = <<>>
    /\ log = <<>>
    /\ ShieldIdle
    /\ MainIdle

NextService ==
    \/ \E ok \in BOOLEAN : FindMarkdownFiles(ok)
    \/ \E ok \in BOOLEAN : ReadFile(ok)
    \/ TranslateMarkdown
    \/ \E o \in ServiceOutcomes : Attempt(o)
    \/ TranslateMarkdownDone
    \/ TranslateStem
    \/ \E ok \in BOOLEAN : WriteFile(ok)

SpecService == InitService /\ [][NextService]_vars

(***************************************************************************)
(* Properties of the footnote shield.                                      *)
(***************************************************************************)
\* the lines of the content handed to preprocess_markdown
ContentLines == SplitLines(content)

\* C11: postprocess_markdown applied to what preprocess_markdown returned for
\* a content gives that content back, whatever the content.
C11_RoundTrip ==
    (svc_pc = "unshielded" /\ translated_content = processed_content) =>
        final_content = content

\* no line of the content is a footnote definition
NoDefinitionLine ==
    \A i \in 1..Len(ContentLines) : ~MatchesFootnoteDef(Strip(ContentLines[i]))

\* C12: for a content without a footnote definition line, preprocess_markdown
\* returns the content unchanged and an empty list of footnotes; and
\* postprocess_markdown with an empty list returns its text unchanged.
C12_NoFootnotes ==
    /\ (svc_pc \in {"shielded", "unshielded"} /\ NoDefinitionLine) =>
           /\ processed_content = content
           /\ footnotes = <<>>
    /\ (svc_pc = "unshielded" /\ footnotes = <<>>) =>
           final_content = translated_content

\* a content of lines that only look like a definition and a continuation,
\* and a translated text that comes back as it is
C12_Witness ==
    /\ svc_pc = "unshielded"
    /\ content = <<"[","^","3","]",":","\n"," "," "," "," ","m","\n">>
    /\ processed_content = content /\ footnotes = <<>>
    /\ translated_content = <<"T","x">> /\ final_content = <<"T","x">>

\* line i of the lines L is a footnote definition line, trimmed
DefinitionAt(L, i) == MatchesFootnoteDef(Strip(L[i]))

\* line i of L may continue a footnote: it starts with four spaces or a tab,
\* is not blank and is not a definition line
ContinuationLike(L, i) ==
    /\ \/ Len(L[i]) >= 4 /\ \A q \in 1..4 : L[i][q] = " "
       \/ Len(L[i]) >= 1 /\ L[i][1] = "\t"
    /\ \E q \in 1..Len(L[i]) : L[i][q] \notin Whitespace
    /\ ~DefinitionAt(L, i)

\* line i of L belongs to the footnote of an earlier definition line: only
\* lines that may continue a footnote lie between the two
Absorbed(L, i) ==
    \E d \in 1..(i - 1) :
        DefinitionAt(L, d) /\ \A j \in (d + 1)..i : ContinuationLike(L, j)

DefinitionLines(L) == {i \in 1..Len(L) : DefinitionAt(L, i)}
KeptLines(L) == {i \in 1..Len(L) : ~Absorbed(L, i)}

\* the 0-based position of the line d among the definition lines D
BlockIndex(D, d) == Cardinality({j \in D : j < d})
\* the position of the line i among the kept lines K
Rank(K, i) == Cardinality({j \in K : j <= i})
\* the last line of the block that starts at the definition line d of L
BlockEnd(L, d) ==
    SetMax({e \in d..Len(L) : \A j \in (d + 1)..e : ContinuationLike(L, j)})

\* the placeholder line of the block at position k
TokenLine(k) ==
    <<"_","_","F","O","O","T","N","O","T","E","_">> \o Decimal(k) \o <<"_","_">>

\* C13: preprocess_markdown keeps the lines that belong to no footnote as
\* they are and in order, and puts in the place of each footnote block (a
\* definition line with the lines taken into it) the one line
\* __FOOTNOTE_<k>__, k being the 0-based position of the block; footnotes
\* holds the blocks in that order, each the block's lines as they were,
\* joined by newlines.
C13_ShieldStructure ==
    svc_pc = "shielded" =>
        LET L == ContentLines
            D == DefinitionLines(L)
            K == KeptLines(L)
            P == SplitLines(processed_content)
        IN  /\ Len(footnotes) = Cardinality(D)
            /\ \A d \in D :
                   footnotes[BlockIndex(D, d) + 1] = JoinLines(SubSeq(L, d, BlockEnd(L, d)))
            /\ Len(P) = Cardinality(K)
            /\ \A i \in K :
                   P[Rank(K, i)] = IF i \in D THEN TokenLine(BlockIndex(D, i)) ELSE L[i]

\* a plain line, a definition with a continuation, an indented definition
C13_Witness ==
    /\ svc_pc = "shielded"
    /\ ContentLines = << <<"x">>, <<"[","^","1","]",":"," ","n">>, <<" "," "," "," ","m">>,
                         <<"\t","[","^","2","]",":"," ","k">> >>
    /\ SplitLines(processed_content) = << <<"x">>, TokenLine(0), TokenLine(1) >>
    /\ Len(footnotes) = 2

\* C14: the lines taken into a footnote after its definition line are the
\* lines that follow it directly, start with four spaces or a tab, are not
\* blank and are no definition line; the first line that is blank, a
\* definition, or not indented ends the footnote and is not lost: a
\* definition line starts the next footnote, any other line is the line after
\* the placeholder.
C14_Absorption ==
    svc_pc = "shielded" =>
        LET L == ContentLines
            D == DefinitionLines(L)
            K == KeptLines(L)
            P == SplitLines(processed_content)
        IN  \A d \in D :
                LET k == BlockIndex(D, d) + 1
                    block == SplitLines(footnotes[k])
                    stop == d + Len(block)
                IN  /\ k <= Len(footnotes)
                    /\ block[1] = L[d]
                    /\ \A j \in 1..(Len(block) - 1) :
                           /\ d + j <= Len(L)
                           /\ ContinuationLike(L, d + j)
                           /\ block[j + 1] = L[d + j]
                    /\ stop <= Len(L) =>
                           /\ ~ContinuationLike(L, stop)
                           /\ IF stop \in D
                              THEN /\ k + 1 <= Len(footnotes)
                                   /\ SplitLines(footnotes[k + 1])[1] = L[stop]
                              ELSE /\ Rank(K, d) + 1 <= Len(P)
                                   /\ P[Rank(K, d)] = TokenLine(k - 1)
                                   /\ P[Rank(K, d) + 1] = L[stop]
                    /\ stop > Len(L) => Rank(K, d) = Len(P)

\* a footnote ended by a definition line, whose footnote is ended by a line
\* of three spaces and a letter
C14_Witness ==
    /\ svc_pc = "shielded"
    /\ ContentLines = << <<"[","^","1","]",":"," ","n">>, <<" "," "," "," ","m">>,
                         <<"\t","[","^","2","]",":"," ","k">>, <<" "," "," ","y">> >>
    /\ footnotes = << <<"[","^","1","]",":"," ","n","\n"," "," "," "," ","m">>,
                      <<"\t","[","^","2","]",":"," ","k">> >>
    /\ SplitLines(processed_content) = << TokenLine(0), TokenLine(1), <<" "," "," ","y">> >>

\* the positions of s at which token starts
Occurrences(s, token) ==
    {i \in 1..(Len(s) - Len(token) + 1) : SubSeq(s, i, i + Len(token) - 1) = token}

\* s from position from on, with the occurrences of token that do not overlap
\* an earlier one, taken from the left, each replaced by entry
RECURSIVE Substituted(_, _, _, _)
Substituted(s, from, token, entry) ==
    LET next == {i \in Occurrences(s, token) : i >= from}
    IN  IF next = {} THEN SubSeq(s, from, Len(s))
        ELSE SubSeq(s, from, SetMin(next) - 1) \o entry
                 \o Substituted(s, SetMin(next) + Len(token), token, entry)

\* text after the entries 0..n-1 of footnotes were put in
RECURSIVE Restored(_, _)
Restored(text, n) ==
    IF n = 0 THEN text
    ELSE Substituted(Restored(text, n - 1), 1, TokenLine(n - 1), footnotes[n])

\* C17: postprocess_markdown always yields a text: the translated text in
\* which, for the entries of footnotes in the order 0..n-1, every occurrence
\* of __FOOTNOTE_<i>__ in the text so far is replaced by entry i; a text that
\* holds none of the tokens comes back unchanged.
C17_Unshield ==
    /\ svc_pc = "shielded" => ENABLED (\E text \in TranslatedTexts : Postprocess(text))
    /\ svc_pc = "unshielded" =>
           /\ final_content = Restored(translated_content, Len(footnotes))
           /\ (\A i \in 1..Len(footnotes) :
                   Occurrences(translated_content, TokenLine(i - 1)) = {}) =>
                  final_content = translated_content

\* two footnotes, a text that holds the token 0 twice and the token 1 not at
\* all: the entry 0 stands twice in the result
C17_Witness ==
    /\ svc_pc = "unshielded"
    /\ Len(footnotes) = 2
    /\ translated_content = TokenLine(0) \o <<"\n">> \o TokenLine(0)
    /\ final_content = footnotes[1] \o <<"\n">> \o footnotes[1]

(***************************************************************************)
(* Properties of the batch.                                                *)
(***************************************************************************)
\* the files whose read, content translation or write raised
FaultsOf(j) ==
    {i \in 1..Len(log) :
        log[i].doc = j /\ ~log[i].ok /\ log[i].step \in {"read", "translate", "write"}}
FaultDocs == {j \in 1..Len(listing) : FaultsOf(j) # {}}

\* the steps of file j that the log shows
StepsOf(j) == {log[i].step : i \in {i \in 1..Len(log) : log[i].doc = j}}

\* C1: when the batch over the K enumerated files is over, every file was
\* attempted and there are K outcomes; the outcome of a file is marked failed
\* exactly when its read, its content translation or its write raised, and it
\* then carries the text of that error; every other outcome is marked
\* successful, carries no error text, and its output file was written and
\* exists.  In particular one failing file leaves the K-1 others successful.
C1_FailureIsolation ==
    (orch_pc = "done" /\ listing # <<>>) =>
        /\ Len(results) = Len(listing)
        /\ \A j \in 1..Len(listing) :
               /\ "read" \in StepsOf(j)
               /\ results[j].success <=> j \notin FaultDocs
               /\ j \in FaultDocs =>
                      /\ Cardinality(FaultsOf(j)) = 1
                      /\ \A i \in FaultsOf(j) :
                             results[j].error_message = [some |-> TRUE, text |-> log[i].text]
               /\ j \notin FaultDocs =>
                      /\ results[j].error_message = NoMessage
                      /\ \E i \in 1..Len(log) :
                             /\ log[i].doc = j /\ log[i].step = "write" /\ log[i].ok
                             /\ log[i].path \in DOMAIN fs

\* three files, the second fails in its content translation, the others are
\* written
C1_Witness ==
    /\ orch_pc = "done" /\ Len(listing) = 3 /\ Len(results) = 3
    /\ FaultDocs = {2}
    /\ \E i \in FaultsOf(2) : log[i].step = "translate"
    /\ results[1].success /\ ~results[2].success /\ results[3].success

\* C2: the outcomes are those of the enumerated files in sorted order: the
\* list the loop runs over holds the files rglob yielded, each once, in
\* ascending path order; the j-th outcome is that of its j-th file whatever
\* the earlier outcomes were; and at the end there is one outcome per file.
C2_OutcomeOrder ==
    /\ Len(results) <= Len(markdown_files)
    /\ \A j \in 1..Len(results) : results[j].source_file = markdown_files[j]
    /\ Len(markdown_files) = Len(listing)
    /\ {markdown_files[j] : j \in 1..Len(markdown_files)} = {listing[j] : j \in 1..Len(listing)}
    /\ \A i, j \in 1..Len(markdown_files) :
           i < j => PathLess(markdown_files[i], markdown_files[j])
    /\ orch_pc = "done" => Len(results) = Len(listing)

\* three files that rglob yielded in another order, a/b.md before a.md, the
\* first failed and the last succeeded
C2_Witness ==
    /\ orch_pc = "done" /\ Len(results) = 3
    /\ listing # markdown_files
    /\ results[1].source_file = << <<"a">>, <<"b",".","m","d">> >>
    /\ results[2].source_file = << <<"a",".","m","d">> >>
    /\ ~results[1].success /\ results[3].success

(***************************************************************************)
(* The vocabulary of the properties of the gateway.                        *)
(***************************************************************************)
RateLimitMarkers ==
    { <<"q","u","o","t","a">>,
      <<"r","a","t","e"," ","l","i","m","i","t">>,
      <<"4","2","9">>,
      <<"r","e","s","o","u","r","c","e"," ","e","x","h","a","u","s","t","e","d">>,
      <<"r","e","s","o","u","r","c","e","_","e","x","h","a","u","s","t","e","d">> }

\* the message, compared case-insensitively, contains a rate-limit marker
SaysRateLimited(m) == \E p \in RateLimitMarkers : Contains(Lower(m), p)

\* every outcome of the underlying call, by what the properties call it
OutcomeKind ==
    [o \in AllOutcomes |->
        IF o.kind = "raise"
        THEN IF SaysRateLimited(o.msg) THEN "rate_limited" ELSE "generic"
        ELSE IF o.kind \in {"no_response", "no_text"} \/ o.text = <<>>
        THEN "empty" ELSE "text"]

\* the underlying call failed with a generic error
GenericCallFailure(o) == OutcomeKind[o] = "generic"
\* the underlying call failed with a rate-limit error
RateLimitedCallFailure(o) == OutcomeKind[o] = "rate_limited"
\* the underlying call succeeded with empty or absent text
EmptyTextOutcome(o) == OutcomeKind[o] = "empty"
\* the underlying call succeeded with a non-empty text
TextOutcome(o) == OutcomeKind[o] = "text"

AllWhitespace(s) == \A i \in 1..Len(s) : s[i] \in Whitespace

\* a translate_text call on non-blank text is under way or over
InCall == gw_pc # "idle" /\ ~AllWhitespace(gw_text)

\* the first k underlying calls of this translate_text call
FirstAre(k, P(_)) == k <= Len(outcomes) /\ \A i \in 1..k : P(outcomes[i])
AllAre(P(_)) == FirstAre(Len(outcomes), P)

\* the sleep that followed the underlying call of attempt a (0-based), when
\* every earlier attempt was followed by a sleep
SleepAfter(a) == trace[2 * a + 2]
HasSleepAfter(a) ==
    /\ Len(trace) >= 2 * a + 2
    /\ trace[2 * a + 1].ev = "call"
    /\ trace[2 * a + 2].ev = "sleep"

\* C3 as stated: after k < max_retries generic failures the gateway is still
\* trying, having made k calls, and when the next call yields a non-empty
\* text, translate_text returns that very text after exactly k+1 calls.
C3_ReturnsThatText ==
    \A k \in 0..Len(outcomes) :
        (InCall /\ k < max_retries /\ FirstAre(k, GenericCallFailure)) =>
            /\ Len(outcomes) = k => (gw_pc = "attempt" /\ NumCalls = k)
            /\ (Len(outcomes) = k + 1 /\ TextOutcome(outcomes[k + 1])) =>
                   /\ gw_pc = "returned"
                   /\ gw_result = outcomes[k + 1].text
                   /\ NumCalls = k + 1

\* C3 as amended: the text returned is the response's text with its leading
\* and trailing whitespace removed.
C3_RetryThenSuccess ==
    \A k \in 0..Len(outcomes) :
        (InCall /\ k < max_retries /\ FirstAre(k, GenericCallFailure)) =>
            /\ Len(outcomes) = k => (gw_pc = "attempt" /\ NumCalls = k)
            /\ (Len(outcomes) = k + 1 /\ TextOutcome(outcomes[k + 1])) =>
                   /\ gw_pc = "returned"
                   /\ gw_result = Strip(outcomes[k + 1].text)
                   /\ gw_error = NoException
                   /\ NumCalls = k + 1

\* two generic failures, then a text: returned after three calls
C3_Witness ==
    /\ InCall /\ gw_pc = "returned" /\ Len(outcomes) = 3 /\ NumCalls = 3
    /\ FirstAre(2, GenericCallFailure) /\ TextOutcome(outcomes[3])
    /\ gw_result # <<>>

\* C4: when every attempt of a translate_text call fails with a generic
\* error, the gateway gives up after exactly max_retries underlying calls,
\* not earlier, and raises an APIError that is no RateLimitError and whose
\* message contains the message of the last attempt's failure.
C4_GenericExhaustion ==
    (InCall /\ AllAre(GenericCallFailure)) =>
        /\ Len(outcomes) < max_retries => gw_pc = "attempt"
        /\ Len(outcomes) >= max_retries =>
               /\ gw_pc = "raised"
               /\ Len(outcomes) = max_retries
               /\ NumCalls = max_retries
               /\ gw_error.cls = "APIError"
               /\ Contains(gw_error.msg, outcomes[max_retries].msg)
               /\ gw_error.msg = MsgCallFailedPrefix \o outcomes[max_retries].msg

\* generic failures with different messages: the last one is reported
C4_Witness ==
    /\ InCall /\ gw_pc = "raised" /\ max_retries = 3 /\ NumCalls = 3
    /\ AllAre(GenericCallFailure)
    /\ outcomes[1].msg # outcomes[3].msg /\ outcomes[2].msg # outcomes[3].msg
    /\ gw_error.cls = "APIError"

\* C5: whenever attempt a (0-based, counted over all attempts of the call)
\* fails with a generic error and a < max_retries - 1, the sleep that follows
\* it lasts retry_delay * 2^a seconds, whatever the kind of the earlier
\* failures.
C5_BackoffSchedule ==
    \A a \in 0..(Len(outcomes) - 1) :
        (InCall /\ a < max_retries - 1 /\ GenericCallFailure(outcomes[a + 1])) =>
            /\ HasSleepAfter(a)
            /\ SleepAfter(a).secs = retry_delay * (2 ^ a)

\* a rate-limit failure, then generic failures at attempts 1 and 2: the
\* sleeps are rate_limit_wait, 2 * retry_delay and 4 * retry_delay
C5_Witness ==
    /\ InCall /\ max_retries = 4 /\ Len(outcomes) >= 3
    /\ RateLimitedCallFailure(outcomes[1])
    /\ GenericCallFailure(outcomes[2]) /\ GenericCallFailure(outcomes[3])
    /\ Len(trace) >= 6 /\ trace[2].secs = rate_limit_wait
    /\ trace[4].secs = 2 * retry_delay /\ trace[6].secs = 4 * retry_delay

\* C6 as stated: a rate-limited attempt that is not the last is followed by a
\* sleep of rate_limit_wait seconds; when every attempt is rate-limited the
\* gateway raises a RateLimitError after exactly max_retries calls; and when
\* an attempt after rate-limited ones yields a non-empty text, that very text
\* is returned.
C6_ReturnsItsText ==
    /\ \A a \in 0..(Len(outcomes) - 1) :
           (InCall /\ a < max_retries - 1 /\ RateLimitedCallFailure(outcomes[a + 1])) =>
               /\ HasSleepAfter(a)
               /\ SleepAfter(a).secs = rate_limit_wait
    /\ (InCall /\ AllAre(RateLimitedCallFailure)) =>
           /\ Len(outcomes) < max_retries => gw_pc = "attempt"
           /\ Len(outcomes) >= max_retries =>
                  /\ gw_pc = "raised" /\ NumCalls = max_retries
                  /\ gw_error.cls = "RateLimitError"
    /\ \A k \in 1..(Len(outcomes) - 1) :
           (InCall /\ FirstAre(k, RateLimitedCallFailure)
                   /\ Len(outcomes) = k + 1 /\ TextOutcome(outcomes[k + 1])) =>
               /\ gw_pc = "returned"
               /\ gw_result = outcomes[k + 1].text

\* C6 as amended: the text returned is the response's text with its leading
\* and trailing whitespace removed.
C6_RateLimitRetry ==
    /\ \A a \in 0..(Len(outcomes) - 1) :
           (InCall /\ a < max_retries - 1 /\ RateLimitedCallFailure(outcomes[a + 1])) =>
               /\ HasSleepAfter(a)
               /\ SleepAfter(a).secs = rate_limit_wait
    /\ (InCall /\ AllAre(RateLimitedCallFailure)) =>
           /\ Len(outcomes) < max_retries => gw_pc = "attempt"
           /\ Len(outcomes) >= max_retries =>
                  /\ gw_pc = "raised" /\ NumCalls = max_retries
                  /\ Len(outcomes) = max_retries
                  /\ gw_error.cls = "RateLimitError"
    /\ \A k \in 1..(Len(outcomes) - 1) :
           (InCall /\ FirstAre(k, RateLimitedCallFailure)
                   /\ Len(outcomes) = k + 1 /\ TextOutcome(outcomes[k + 1])) =>
               /\ gw_pc = "returned"
               /\ gw_result = Strip(outcomes[k + 1].text)
               /\ NumCalls = k + 1

\* every one of three attempts is rate-limited: two sleeps of rate_limit_wait
\* seconds, then a RateLimitError
C6_Witness ==
    /\ InCall /\ max_retries = 3 /\ gw_pc = "raised" /\ Len(outcomes) = 3
    /\ AllAre(RateLimitedCallFailure)
    /\ trace[2] = SleepEvent(rate_limit_wait) /\ trace[4] = SleepEvent(rate_limit_wait)
    /\ gw_error.cls = "RateLimitError"

\* C7: the failure of the latest underlying call is handled as rate-limited
\* (a RateLimitError is kept, the sleep lasts rate_limit_wait seconds, a
\* RateLimitError is raised on exhaustion) exactly when its message contains
\* "quota", "rate limit", "429", "resource exhausted" or "resource_exhausted"
\* in any case; otherwise it is handled as a generic failure (an APIError that
\* is no RateLimitError, the exponential sleep).
C7_Classification ==
    (InCall /\ Len(outcomes) >= 1 /\ outcomes[Len(outcomes)].kind = "raise") =>
        LET a == Len(outcomes) - 1
            m == outcomes[a + 1].msg
        IN  /\ (last_exception.cls = "RateLimitError") <=> SaysRateLimited(m)
            /\ (last_exception.cls = "APIError") <=> ~SaysRateLimited(m)
            /\ a < max_retries - 1 =>
                   /\ gw_pc = "attempt"
                   /\ HasSleepAfter(a)
                   /\ SleepAfter(a).secs =
                          IF SaysRateLimited(m) THEN rate_limit_wait ELSE retry_delay * (2 ^ a)
            /\ a >= max_retries - 1 =>
                   /\ gw_pc = "raised"
                   /\ (gw_error.cls = "RateLimitError") <=> SaysRateLimited(m)
                   /\ (gw_error.cls = "APIError") <=> ~SaysRateLimited(m)

\* a failure whose only marker is "429" is handled as rate-limited
C7_Witness ==
    /\ InCall /\ Len(outcomes) = 1 /\ max_retries > 1
    /\ outcomes[1] = CallRaises(<<"H","T","T","P"," ","4","2","9">>)
    /\ last_exception.cls = "RateLimitError"
    /\ trace[2] = SleepEvent(rate_limit_wait)

\* C8: a translate_text call never makes more than max_retries underlying
\* calls, failures of both kinds counted together; and a call all of whose
\* attempts fail makes exactly max_retries of them, however many underlying
\* calls the earlier translate_text calls of this gateway made.
C8_BudgetPerCall ==
    /\ NumCalls <= max_retries
    /\ NumCalls = Len(outcomes)
    /\ (InCall /\ gw_pc = "attempt") => NumCalls < max_retries
    /\ (InCall /\ gw_pc = "raised") =>
           /\ NumCalls = max_retries
           /\ \A i \in 1..Len(outcomes) : ~TextOutcome(outcomes[i])

\* a second call that exhausts its budget on failures of both kinds, after a
\* first call that used its whole budget too
C8_Witness ==
    /\ InCall /\ n_translate = 2 /\ max_retries = 3 /\ prev_exhausted
    /\ gw_pc = "raised" /\ NumCalls = 3
    /\ \E i, j \in 1..3 : GenericCallFailure(outcomes[i]) /\ RateLimitedCallFailure(outcomes[j])

\* C9: an underlying call that yields empty or absent text is a failed
\* generic attempt: it is followed by the exponential sleep and another
\* attempt, and when all max_retries attempts yield empty or absent text the
\* gateway raises an APIError that is no RateLimitError and reports the
\* empty response; it never returns.
C9_EmptyResponse ==
    /\ \A a \in 0..(Len(outcomes) - 1) :
           (InCall /\ a < max_retries - 1 /\ EmptyTextOutcome(outcomes[a + 1])) =>
               /\ HasSleepAfter(a)
               /\ SleepAfter(a).secs = retry_delay * (2 ^ a)
    /\ (InCall /\ Len(outcomes) >= 1 /\ EmptyTextOutcome(outcomes[Len(outcomes)])) =>
           gw_pc # "returned"
    /\ (InCall /\ AllAre(EmptyTextOutcome)) =>
           /\ Len(outcomes) < max_retries => gw_pc = "attempt"
           /\ Len(outcomes) >= max_retries =>
                  /\ gw_pc = "raised" /\ NumCalls = max_retries
                  /\ gw_error = Raised("APIError", MsgEmptyResponse)

\* an empty text, an absent text and no response: three attempts, then the
\* APIError
C9_Witness ==
    /\ InCall /\ max_retries = 3 /\ gw_pc = "raised" /\ NumCalls = 3
    /\ AllAre(EmptyTextOutcome)
    /\ \E i, j, k \in 1..3 :
           /\ outcomes[i] = RespText(<<>>) /\ outcomes[j] = RespNoText
           /\ outcomes[k] = RespNone
    /\ trace[2] = SleepEvent(retry_delay) /\ trace[4] = SleepEvent(2 * retry_delay)

\* C10: translate_text on an empty or whitespace-only text returns the text
\* unchanged, with no underlying call, no sleep and no error.
C10_BlankText ==
    (gw_pc # "idle" /\ AllWhitespace(gw_text)) =>
        /\ gw_pc = "returned"
        /\ gw_result = gw_text
        /\ gw_error = NoException
        /\ trace = <<>>
        /\ outcomes = <<>>

\* a whitespace-only text came back as it was, after a call that did work
C10_Witness ==
    /\ gw_pc = "returned" /\ gw_text = <<"\t","\n"," ">> /\ gw_result = gw_text
    /\ n_translate = 2 /\ prev_exhausted /\ trace = <<>>

(***************************************************************************)
(* Properties of the pipeline, for one document.                           *)
(***************************************************************************)
\* the document went through and was reported successful
ReportedSuccessful ==
    orch_pc = "done" /\ Len(results) = 1 /\ results[1].success

\* what the source file holds, and what was written for it
SourceContent == fs[ServiceFile]
WrittenContent == fs[log[Len(log)].path]

\* the text translate_text returned for the body of the document
GatewayResult ==
    log[CHOOSE i \in 1..Len(log) : log[i].step = "translate" /\ log[i].ok].text

\* C15: the text handed to the gateway for the body of a document has no
\* line that is, trimmed, a footnote definition.
C15_NoDefinitionSent ==
    (orch_pc = "content_call" /\ gw_pc # "idle") =>
        \A i \in 1..Len(SplitLines(gw_text)) :
            ~MatchesFootnoteDef(Strip(SplitLines(gw_text)[i]))

\* a content of a definition, an indented definition and a plain line: the
\* gateway is handed two placeholders and the plain line
C15_Witness ==
    /\ orch_pc = "content_call" /\ gw_pc = "attempt"
    /\ content = <<"[","^","1","]",":"," ","n","\n","\t","[","^","2","]",":"," ","k","\n","x">>
    /\ SplitLines(gw_text) = << TokenLine(0), TokenLine(1), <<"x">> >>

BlankContent == content = <<>> \/ AllWhitespace(content)

\* text is the lines L with each footnote block replaced by its placeholder
\* line, the other lines as they are
ShieldedFrom(text, L) ==
    LET D == DefinitionLines(L)
        K == KeptLines(L)
        P == SplitLines(text)
    IN  /\ Len(P) = Cardinality(K)
        /\ \A i \in K :
               P[Rank(K, i)] = IF i \in D THEN TokenLine(BlockIndex(D, i)) ELSE L[i]

\* C18: for a content that is not blank, translate_markdown calls
\* translate_text once, with the content in which the footnote blocks are
\* replaced by their placeholders, and returns what translate_text returned
\* with the placeholders replaced by the footnotes; a content without a
\* footnote definition is handed over as it is and the text returned for it
\* is returned as it is.
C18_OneCall ==
    /\ orch_pc = "content_call" =>
           /\ n_translate = 1
           /\ ShieldedFrom(gw_text, ContentLines)
           /\ Len(footnotes) = Cardinality(DefinitionLines(ContentLines))
           /\ NoDefinitionLine => gw_text = content
    /\ (orch_pc = "stem" /\ ~BlankContent) =>
           /\ n_translate = 1
           /\ translated_content = Restored(GatewayResult, Len(footnotes))
           /\ NoDefinitionLine => translated_content = GatewayResult

\* a plain line and a footnote: translate_text was called once, returned the
\* text it was given, and the content comes back
C18_Witness ==
    /\ orch_pc = "stem"
    /\ n_translate = 1
    /\ content = <<"x","\n","[","^","1","]",":"," ","n">>
    /\ GatewayResult = <<"x","\n">> \o TokenLine(0)
    /\ translated_content = content

\* C19: for a content that is empty or holds whitespace only,
\* translate_markdown returns the content: nothing is shielded and
\* translate_text is not called.
C19_BlankContent ==
    /\ orch_pc = "content_call" => ~BlankContent
    /\ (orch_pc = "stem" /\ BlankContent) =>
           /\ translated_content = content
           /\ n_translate = 0
           /\ gw_pc = "idle" /\ trace = <<>>
           /\ processed_content = <<>> /\ footnotes = <<>>
           /\ log[Len(log)] = Done("translate", source_file)

\* a content of two lines of one space each
C19_Witness ==
    /\ orch_pc = "stem"
    /\ content = <<" ","\n"," ">>
    /\ translated_content = content
    /\ n_translate = 0

\* C20: when the translate_text call of translate_markdown fails, with an
\* APIError or a RateLimitError, translate_markdown raises one
\* TranslationError whose message holds the message of that error; every
\* failure of translate_markdown is a TranslationError.
C20_FailureWrapped ==
    [][/\ (orch_pc = "content_call" /\ gw_pc = "raised") =>
              /\ IsAPIError(gw_error)
              /\ Len(log') = Len(log) + 1
              /\ log'[Len(log')].step = "translate"
              /\ ~log'[Len(log')].ok
              /\ log'[Len(log')].cls = "TranslationError"
              /\ Contains(log'[Len(log')].text, gw_error.msg)
              /\ results' = Append(results, [source_file |-> source_file, success |-> FALSE,
                                             error_message |-> [some |-> TRUE,
                                                                text |-> log'[Len(log')].text]])
       /\ \A i \in 1..Len(log') :
              (log'[i].step = "translate" /\ ~log'[i].ok) => log'[i].cls = "TranslationError"
      ]_vars

\* the document failed in translate_markdown after a rate limit error
C20_Witness ==
    /\ orch_pc = "done"
    /\ Len(results) = 1 /\ ~results[1].success
    /\ log[Len(log)].step = "translate"
    /\ log[Len(log)].cls = "TranslationError"
    /\ Contains(log[Len(log)].text, MsgRateLimitPrefix \o <<"H","T","T","P"," ","4","2","9">>)
    /\ results[1].error_message.text = log[Len(log)].text

(***************************************************************************)
(* Properties of the output files of a batch.                              *)
(***************************************************************************)
\* the output path of the source file p under the name given
MirrorPath(p, name) == <<OutputDirName>> \o Parent(p) \o <<name \o MdSuffix>>

Underscored(s) ==
    [k \in 1..Len(s) |-> IF s[k] \in {"/", "\\", ":"} THEN "_" ELSE s[k]]

C23_SameFileName ==
    \A k \in 1..Len(results) :
        results[k].success => (<<OutputDirName>> \o results[k].source_file) \in DOMAIN fs

(***************************************************************************)
(* Properties of the translator calls of a batch.                          *)
(***************************************************************************)
\* the batch is over and every step of every file ended well
AllStepsWell ==
    /\ orch_pc = "done"
    /\ Len(results) = Len(markdown_files)
    /\ \A i \in 1..Len(log) : log[i].ok

\* no file of the batch is empty or holds whitespace only
NoBlankFile ==
    \A k \in 1..Len(markdown_files) :
        fs[markdown_files[k]] # <<>> /\ ~AllWhitespace(fs[markdown_files[k]])

\* C24: in a batch of K documents, none of them blank, in which no
\* translate_text call fails, translate_text is called K times, once for
\* each document.
C24_OneCallPerDocument ==
    (AllStepsWell /\ NoBlankFile) => n_translate = Len(markdown_files)

\* the translate_text calls made for document k that raised
FailedCalls(k) ==
    {i \in 1..Len(log) : log[i].doc = k /\ log[i].step \in {"translate", "stem"} /\ ~log[i].ok}

\* C25: in a batch whose reads and writes end well, the documents recorded
\* as failed are the documents during which a translate_text call raised,
\* each with the text of the error in its outcome; every other document is
\* recorded as successful.
C25_FailedCallFailsDocument ==
    (/\ orch_pc = "done"
     /\ \A i \in 1..Len(log) : log[i].step \in {"read", "write"} => log[i].ok) =>
        \A k \in 1..Len(results) :
            /\ results[k].success = (FailedCalls(k) = {})
            /\ \A i \in FailedCalls(k) : results[k].error_message.text = log[i].text

(***************************************************************************)
(* Properties of the credentials.                                          *)
(***************************************************************************)
\* the lines of the .env file, trimmed
EnvLinesTrimmed ==
    [i \in 1..Len(splitlines(env_file.text)) |-> Strip(splitlines(env_file.text)[i])]

\* v without one pair of matching quotes around it
WithoutQuotePair(v) ==
    IF Len(v) >= 2 /\ v[1] = v[Len(v)] /\ v[1] \in {"\"", "'"}
    THEN SubSeq(v, 2, Len(v) - 1)
    ELSE v

\* C29: load_api_key_from_env goes through the lines in order; blank lines
\* and lines that start with '#' count for nothing; the first line that
\* starts with key= decides, whatever follows it: its value without one pair
\* of matching single or double quotes around it is returned, or, when that
\* is empty, the error of the empty value is raised; a missing file, a file
\* without a key= line and an empty value give three different errors.
C29_Credentials ==
    main_pc # "load_key" =>
        IF ~env_file.exists
        THEN api_key = KeyFailed(Raised("FileNotFoundError", MsgEnvNotFound))
        ELSE (env_file.is_file /\ env_file.readable) =>
            LET L == EnvLinesTrimmed
                K == {i \in 1..Len(L) : StartsWith(L[i], KeyPrefix)}
            IN  IF K = {}
                THEN api_key = KeyFailed(Raised("ValueError", MsgKeyNotFound))
                ELSE LET v == WithoutQuotePair(Strip(SubSeq(L[SetMin(K)], 5, Len(L[SetMin(K)]))))
                     IN  IF v = <<>>
                         THEN api_key = KeyFailed(Raised("ValueError", MsgKeyEmpty))
                         ELSE api_key = KeyLoaded(v)

(***************************************************************************)
(* Properties of the run.                                                  *)
(***************************************************************************)
\* C26: when the enumeration fails or finds no Markdown file,
\* translate_directory returns an empty list of results: no file is read,
\* translate_text is not called and nothing is written; the exit code of a
\* run with an empty list of results is 0.
C26_EmptyBatch ==
    /\ (orch_pc # "start" /\ markdown_files = <<>>) =>
           /\ orch_pc \in {"done", "interrupted"}
           /\ results = <<>>
           /\ log = <<>>
           /\ n_translate = 0 /\ GatewayIdle
           /\ \A p \in DOMAIN fs : p \in DOMAIN CandidateFiles /\ fs[p] = CandidateFiles[p]
    /\ (main_pc = "exited" /\ report = "summary" /\ results = <<>>) => exit_code = 0

\* the enumeration failed over a tree that holds files; the run ended with 0
C26_Witness ==
    /\ main_pc = "exited" /\ report = "summary"
    /\ exit_code = 0
    /\ results = <<>> /\ listing = <<>>
    /\ Cardinality(DOMAIN fs) = 2

\* C27: a run that got to the batch and was not interrupted ends with 0
\* when no result is a failure, the empty list of results included, and with
\* 1 when at least one result is a failure, whatever the other results are.
C27_ExitCode ==
    (main_pc = "exited" /\ report = "summary") =>
        /\ orch_pc = "done"
        /\ Len(results) = Len(markdown_files)
        /\ exit_code \in {0, 1}
        /\ exit_code = 0 <=> \A k \in 1..Len(results) : results[k].success
        /\ exit_code = 1 <=> \E k \in 1..Len(results) : ~results[k].success

\* of two documents the first was written and the second failed: 1
C27_Witness ==
    /\ main_pc = "exited" /\ report = "summary"
    /\ exit_code = 1
    /\ Len(results) = 2 /\ results[1].success /\ ~results[2].success
    /\ \E i \in 1..Len(log) :
           log[i].step = "write" /\ log[i].ok /\ log[i].doc = 1 /\ log[i].path \in DOMAIN fs

\* C28: an interruption of the process during the batch ends the run: it
\* is reported as interrupted with exit code 1, no result is recorded for
\* it, no translate_text call is made because of it, and nothing happens
\* after it.
C28_Interruption ==
    [][/\ (\E written \in WriteStages : Interrupt(written)) =>
              /\ main_pc' = "exited"
              /\ report' = "interrupted"
              /\ exit_code' = 1
              /\ results' = results /\ log' = log
              /\ n_translate' = n_translate
       /\ main_pc # "exited"
      ]_vars

\* interrupted during the translate_text call for the content of the second
\* document, the first being written
C28_Witness ==
    /\ main_pc = "exited" /\ report = "interrupted"
    /\ exit_code = 1
    /\ Len(markdown_files) = 2
    /\ Len(results) = 1 /\ results[1].success
    /\ n_translate = 3
    /\ log[Len(log)].step = "read" /\ log[Len(log)].doc = 2

(***************************************************************************)
(* The example of README.md.                                               *)
(***************************************************************************)
\* README.md holds the example's content, the document is successful, and
\* both translate_text calls returned "[T] " and the text they were given
ReadmeTranslated ==
    /\ orch_pc = "done"
    /\ Len(results) = 1 /\ results[1].success
    /\ fs[ReadmeFile] = JoinLines(ReadmeLines)
    /\ \A i \in 1..Len(log) : log[i].ok

\* the content written in the example
ReadmeOutput == TranslatorMark \o JoinLines(ReadmeLines)

StepOrder == <<"read", "translate", "stem", "write">>

\* the events of document j, in the order they happened
EventsOf(j) == SelectSeq(log, LAMBDA e : e.doc = j)

\* document j failed in its read or in its content translation
FailedEarly(j) ==
    \E i \in 1..Len(log) :
        log[i].doc = j /\ ~log[i].ok /\ log[i].step \in {"read", "translate"}

\* the writes of this run that went through
WritesDone == {i \in 1..Len(log) : log[i].step = "write" /\ log[i].ok}

\* C31: the steps of each document happen in the order read, translate
\* content, translate base name, write; a failed read or a failed content
\* translation is the last step of its document, so that no translate_text
\* call and no write follows it for that document, and a document that
\* failed there has no file written by this run; a translate_text call under
\* way belongs to a document whose earlier steps all went through.
C31_StepOrder ==
    /\ \A j \in 1..Len(markdown_files) :
           LET ev == EventsOf(j)
           IN  /\ Len(ev) <= Len(StepOrder)
               /\ \A k \in 1..Len(ev) :
                      /\ ev[k].step = StepOrder[k]
                      /\ (~ev[k].ok /\ ev[k].step \in {"read", "translate"}) => k = Len(ev)
               /\ FailedEarly(j) => \A i \in WritesDone : log[i].doc # j
               /\ j > file_idx => ev = <<>>
    /\ orch_pc = "content_call" =>
           /\ gw_pc # "idle"
           /\ Len(EventsOf(file_idx)) = 1 /\ EventsOf(file_idx)[1].ok
    /\ orch_pc = "stem_call" =>
           /\ gw_pc # "idle"
           /\ Len(EventsOf(file_idx)) = 2
           /\ EventsOf(file_idx)[1].ok /\ EventsOf(file_idx)[2].ok
    /\ orch_pc \notin {"content_call", "stem_call"} => gw_pc = "idle"

\* three documents, the second failed in its content translation after a
\* read that went through: exactly two files were written, those of the
\* first and the third document
C31_Witness ==
    /\ orch_pc = "done" /\ Len(markdown_files) = 3
    /\ Len(EventsOf(2)) = 2
    /\ EventsOf(2)[1].ok /\ ~EventsOf(2)[2].ok /\ EventsOf(2)[2].step = "translate"
    /\ Cardinality(WritesDone) = 2
    /\ {log[i].doc : i \in WritesDone} = {1, 3}
    /\ Cardinality({log[i].path : i \in WritesDone}) = 2
    /\ \A i \in WritesDone : log[i].path \in DOMAIN fs


(***************************************************************************)
(* The batch, one document after the other.                                *)
(***************************************************************************)
\* list l with one more element at its end
Extends(longer, l) ==
    /\ Len(longer) = Len(l) + 1
    /\ \A k \in 1..Len(l) : longer[k] = l[k]

\* the events that a step adds to the log
NewEvents == {i \in 1..Len(log') : i > Len(log)}

\* C32: the batch is strictly sequential.  Every step (a read, the start of a
\* translate_text call, each of its attempts with its wait, a write) belongs
\* to the one current document, whose index only moves on by one, and it
\* moves on only in the step that appends the outcome of the current
\* document, with no translate_text call under way; the outcomes before the
\* current document are all there.  The outcome list only grows by one
\* outcome at its end, and no step changes an outcome that is in the list.
C32_Sequential ==
    [][/\ Len(results) = (IF orch_pc \in {"start", "done"} THEN file_idx ELSE file_idx - 1)
       /\ results' = results \/ Extends(results', results)
       /\ file_idx' \in {file_idx, file_idx + 1}
       /\ (file_idx' = file_idx + 1) =>
              /\ Len(results') = file_idx
              /\ orch_pc' = "read" /\ gw_pc' = "idle"
       /\ Extends(results', results) =>
              /\ results'[Len(results')].source_file = markdown_files[file_idx]
              /\ gw_pc' = "idle"
              /\ orch_pc' \in {"read", "done"}
       /\ Len(log') >= Len(log) /\ \A i \in 1..Len(log) : log'[i] = log[i]
       /\ \A i \in NewEvents : log'[i].doc = file_idx /\ file_idx > Len(results)
       /\ (trace' # trace \/ n_translate' # n_translate \/ fs' # fs) =>
              /\ file_idx > Len(results)
              /\ orch_pc \in {"translate", "content_call", "stem", "stem_call"}
      ]_vars

\* the third document is in the second attempt of the translate_text call
\* for its content, after a wait; the outcomes of the first two documents
\* are in the list, one failed and one successful
C32_Witness ==
    /\ file_idx = 3 /\ Len(results) = 2
    /\ orch_pc = "content_call" /\ gw_pc = "attempt" /\ attempt = 1
    /\ NumSleeps = 1
    /\ ~results[1].success /\ results[2].success
    /\ \A i \in 1..Len(log) : log[i].doc = 3 => log[i].step = "read"


(***************************************************************************)
(* Properties of the retry loop of translate_text.                         *)
(***************************************************************************)
\* the underlying call of the last attempt made so far
LastOutcome == outcomes[Len(outcomes)]

\* some attempt before the last one satisfies P
EarlierAttempt(P(_)) == \E i \in 1..(Len(outcomes) - 1) : P(outcomes[i])

\* C33: when translate_text raises, max_retries attempts were made and the
\* kind of the error raised is the kind of the failure of the last attempt
\* alone: a RateLimitError when that attempt was rate-limited, whatever the
\* earlier attempts were, and an APIError that is no RateLimitError when it
\* failed in a generic way or brought an empty response.
C33_FinalAttemptDecides ==
    (InCall /\ gw_pc = "raised") =>
        /\ Len(outcomes) = max_retries
        /\ ~TextOutcome(LastOutcome)
        /\ RateLimitedCallFailure(LastOutcome) =>
               /\ IsRateLimitError(gw_error)
               /\ gw_error.msg = MsgRateLimitPrefix \o LastOutcome.msg
        /\ GenericCallFailure(LastOutcome) =>
               /\ IsAPIError(gw_error) /\ ~IsRateLimitError(gw_error)
               /\ gw_error.msg = MsgCallFailedPrefix \o LastOutcome.msg
        /\ EmptyTextOutcome(LastOutcome) =>
               /\ IsAPIError(gw_error) /\ ~IsRateLimitError(gw_error)
               /\ gw_error.msg = MsgEmptyResponse

\* three attempts, the first rate-limited, the second generic, the last
\* rate-limited: a RateLimitError is raised
C33_Witness ==
    /\ InCall /\ gw_pc = "raised" /\ max_retries = 3 /\ Len(outcomes) = 3
    /\ RateLimitedCallFailure(outcomes[1])
    /\ GenericCallFailure(outcomes[2])
    /\ RateLimitedCallFailure(outcomes[3])
    /\ IsRateLimitError(gw_error)
    /\ EarlierAttempt(GenericCallFailure)


\* the call of translate_text has entered its retry loop and is over
CallOver == InCall /\ gw_pc \in {"returned", "raised"}

\* C34: waits happen only between attempts.  In a translate_text call that
\* reached its retry loop, underlying calls and waits alternate, beginning
\* with a call, so that a wait always comes straight after a failed call and
\* the next thing after a wait is the call of the next attempt; while the
\* loop is under way every call made so far was followed by its wait; and
\* when the call is over, by a return or by an error, the last thing it did
\* was an underlying call, not a wait, and it waited once less than it
\* called.
C34_WaitsBetweenAttempts ==
    InCall =>
        /\ \A i \in 1..Len(trace) :
               trace[i].ev = (IF i % 2 = 1 THEN "call" ELSE "sleep")
        /\ \A i \in 1..Len(trace) :
               trace[i].ev = "sleep" => ~TextOutcome(outcomes[i \div 2])
        /\ NumCalls = Len(outcomes)
        /\ gw_pc = "attempt" =>
               /\ NumSleeps = NumCalls
               /\ NumCalls = attempt /\ attempt < max_retries
        /\ CallOver =>
               /\ NumSleeps = NumCalls - 1
               /\ trace[Len(trace)].ev = "call"
               /\ gw_pc = "returned" => TextOutcome(LastOutcome)
               /\ gw_pc = "raised" => NumCalls = max_retries

\* a call that raised after four failed attempts with three waits between
\* them, the last thing done being the fourth underlying call
C34_Witness ==
    /\ CallOver /\ gw_pc = "raised" /\ max_retries = 4
    /\ NumCalls = 4 /\ NumSleeps = 3
    /\ Len(trace) = 7 /\ trace[7].ev = "call" /\ trace[6].ev = "sleep"


(***************************************************************************)
(* Termination of the batch: every step that can be taken is taken in the  *)
(* end, since every generate_content call, every sleep and every file      *)
(* operation returns or raises.                                            *)
(***************************************************************************)
InitTermination ==
    /\ max_retries \in {1, DefaultMaxRetries}
    /\ retry_delay = DefaultRetryDelay
    /\ rate_limit_wait = DefaultRateLimitWait
    /\ GatewayIdle
    /\ n_translate = 0
    /\ prev_exhausted = FALSE
    /\ fs \in NameTrees
    /\ orch_pc = "start"
    /\ listing = <<>>
    /\ markdown_files = <<>>
    /\ file_idx = 0
    /\ results = <<>>
    /\ content = <<>>
    /\ footnotes = <<>>
    /\ translated_content = <<>>
    /\ log = <<>>
    /\ ShieldIdle
    /\ MainIdle

\* where the batch is: the step of which document, and which attempt of the
\* translate_text call under way
position == <<orch_pc, file_idx, gw_pc, attempt>>

\* the step under way comes to its end and control moves on: the file
\* operation or the generate_content call returns or raises, the sleep is
\* over.  A batch that is not over always has such a step under way.
StepEnds ==
    /\ orch_pc # "done"
    /\ orch_pc' \in {"read", "translate", "content_call", "stem", "stem_call", "done"}
    /\ file_idx' \in {file_idx, file_idx + 1}
    /\ gw_pc' \in {"idle", "attempt", "returned", "raised"}
    /\ attempt' \in {0, attempt, attempt + 1}

SpecTermination == InitTermination /\ [][NextBatch]_vars /\ WF_position(StepEnds)

\* the translate_text calls made for document j that are over
CallsFor(j) ==
    {i \in 1..Len(log) : log[i].doc = j /\ log[i].step \in {"translate", "stem"}}

\* no translate_text call makes more than max_retries underlying calls, no
\* document has more than two translate_text calls, and so the batch makes
\* at most 2 * K * max_retries underlying calls
CallsBounded ==
    /\ NumCalls <= max_retries
    /\ Len(outcomes) = NumCalls
    /\ gw_pc = "attempt" => NumCalls < max_retries
    /\ \A j \in 1..Len(markdown_files) : Cardinality(CallsFor(j)) <= 2
    /\ n_translate <= Cardinality(UNION {CallsFor(j) : j \in 1..Len(markdown_files)})
                          + (IF gw_pc = "idle" THEN 0 ELSE 1)
    /\ n_translate <= 2 * Len(markdown_files)
    /\ (IF gw_pc = "idle" THEN n_translate * max_retries
        ELSE (n_translate - 1) * max_retries + NumCalls)
           <= 2 * Len(markdown_files) * max_retries
    /\ orch_pc = "done" => (gw_pc = "idle" /\ Len(results) = Len(markdown_files))

\* C35: termination.  Provided every step that is under way comes to its
\* end, every translate_text call returns or raises, having made at most
\* max_retries underlying calls, and the batch over K documents comes to its
\* end with K outcomes, having made at most two translate_text calls for
\* each document and so at most 2 * K * max_retries underlying calls,
\* whatever the underlying calls and the file operations do.
C35_Termination ==
    /\ []CallsBounded
    /\ (gw_pc = "attempt") ~> (gw_pc \in {"returned", "raised"})
    /\ <>[](orch_pc = "done" /\ Len(results) = Len(markdown_files))

\* a batch over two documents that is over, with two outcomes and four
\* translate_text calls, of which the two for the second document used all
\* their attempts
C35_Witness ==
    /\ orch_pc = "done" /\ max_retries = DefaultMaxRetries
    /\ Len(markdown_files) = 2 /\ Len(results) = 2
    /\ n_translate = 4
    /\ \E i \in CallsFor(1) : log[i].step = "stem" /\ ~log[i].ok
    /\ \E i \in CallsFor(2) : log[i].step = "stem" /\ ~log[i].ok
    /\ ~results[1].success /\ results[2].success


\* the text of the response of the last attempt is not empty and consists
\* of whitespace only
WhitespaceOnlyResponse ==
    /\ outcomes # <<>>
    /\ LastOutcome.kind = "text"
    /\ LastOutcome.text # <<>> /\ AllWhitespace(LastOutcome.text)

\* C36: for a non-blank input translate_text never returns the empty
\* string: it returns only after an underlying call that yielded a
\* non-empty text, the trimmed text it returns is not empty, and a response
\* of whitespace only is not returned but handled as an empty response, a
\* generic failure kept in last_exception.
C36_NeverReturnsEmpty ==
    InCall =>
        /\ gw_pc = "returned" =>
               /\ outcomes # <<>> /\ LastOutcome.kind = "text" /\ LastOutcome.text # <<>>
               /\ gw_result # <<>>
        /\ WhitespaceOnlyResponse =>
               /\ gw_pc # "returned"
               /\ last_exception = Raised("APIError", MsgEmptyResponse)


(***************************************************************************)
(* Properties of the files a batch reads and writes.                       *)
(***************************************************************************)
\* the path document j was written to, for a document that was written
OutputOf(j) ==
    log[CHOOSE i \in 1..Len(log) : log[i].doc = j /\ log[i].step = "write"].path

\* the documents reported successful
Successful == {j \in 1..Len(results) : results[j].success}

\* C37: two distinct documents that are both reported successful in one run
\* were written to distinct output paths, so that at the end of the run
\* every successful document has an output file of its own.
C37_DistinctOutputs ==
    /\ \A j, k \in Successful : j # k => OutputOf(j) # OutputOf(k)
    /\ \A j \in Successful : OutputOf(j) \in DOMAIN fs
    /\ orch_pc = "done" =>
           Cardinality({p \in DOMAIN fs : \E j \in Successful : p = OutputOf(j)})
               = Cardinality(Successful)


\* the paths of the documents of the run's enumerated input list
InputPaths == {markdown_files[j] : j \in 1..Len(markdown_files)}

\* C38: inputs are not clobbered by outputs within a run.  No write of the
\* run goes to the path of a document of the enumerated input list, also
\* when the source directory holds the output directory of an earlier run,
\* whose .md files are enumerated too; so a document that is yet to be read
\* is never written to.
C38_InputsNotClobbered ==
    \A i \in 1..Len(log) :
        log[i].step = "write" => log[i].path \notin InputPaths


(***************************************************************************)
(* The recognition of footnote definition lines.                           *)
(***************************************************************************)
\* the text t begins with "[^", one or more characters other than "]", then
\* "]:", and at least n more characters follow
DefinitionShape(t, n) ==
    \E q \in 4..Len(t) :
        /\ t[1] = "[" /\ t[2] = "^"
        /\ \A r \in 3..(q - 1) : t[r] # "]"
        /\ t[q] = "]"
        /\ q + 1 <= Len(t) /\ t[q + 1] = ":"
        /\ Len(t) - (q + 1) >= n

\* the lines of L that, trimmed, have the shape of a definition with at
\* least n characters after the colon
ShapedLines(L, n) == {i \in 1..Len(L) : DefinitionShape(Strip(L[i]), n)}

\* preprocess_markdown took exactly the lines D of L as definition lines:
\* each begins a footnote of its own, kept as the line stands
TakenAsDefinitions(L, D) ==
    /\ Len(footnotes) = Cardinality(D)
    /\ \A d \in D : SplitLines(footnotes[BlockIndex(D, d) + 1])[1] = L[d]

\* C39 as stated: preprocess_markdown takes a line as a footnote definition
\* exactly when the trimmed line begins with "[^", one or more characters
\* other than "]", then "]:" followed by any text, the empty text included
\* (the line "[^id]:" alone); the line is kept in footnotes untrimmed.
C39_AnyTextAfterColon ==
    svc_pc = "shielded" =>
        LET L == SplitLines(content)
        IN  TakenAsDefinitions(L, ShapedLines(L, 0))

\* C39 as amended: ... followed by at least one character of text on the
\* trimmed line; an indented definition line is one, the line "[^id]:"
\* alone (or followed by whitespace only) is not; a definition line is kept
\* in footnotes untrimmed.
C39_DefinitionLines ==
    svc_pc = "shielded" =>
        LET L == SplitLines(content)
        IN  /\ TakenAsDefinitions(L, ShapedLines(L, 1))
            /\ \A i \in 1..Len(L) :
                   (ShapedLines(L, 0) = {i} /\ i \notin ShapedLines(L, 1)) =>
                       /\ footnotes = <<>>
                       /\ processed_content = content

\* a content with the line "[^3]:" and its text on an indented line, and
\* the indented definition "\t[^2]: k": the footnotes hold the second alone,
\* with its tab, and the first stays in the text
C39_Witness ==
    /\ svc_pc = "shielded"
    /\ content = <<"[","^","3","]",":","\n"," "," "," "," ","m","\n","\t","[","^","2","]",":"," ","k">>
    /\ footnotes = << <<"\t","[","^","2","]",":"," ","k">> >>
    /\ processed_content = <<"[","^","3","]",":","\n"," "," "," "," ","m","\n">> \o Placeholder(0)

=============================================================================
